---- MODULE Spec2Model ----
(***************************************************************************)
(* The MPSC channel of src/src/channels.rs: Sender (clone, drop, send),    *)
(* Receiver (recv, drop) and channel(), over std's Mutex and Condvar; and  *)
(* the crate's other modules, each a state machine of its own: the         *)
(* spin-lock Mutex of atomics.rs, RefCell, Rc and StrSplit.                *)
(*                                                                         *)
(* Every Sender handle lives in a slot 1..MaxHandles and is driven by one  *)
(* thread; the Receiver is driven by thread RxThread.  One action is one   *)
(* statement of the source between two points where another thread can     *)
(* run.  The value of the k-th send on handle h is <<h, k>>.               *)
(***************************************************************************)
EXTENDS Integers, Sequences, FiniteSets

\* Bounds of the model.
MaxHandles  == 3   \* Sender handles ever created (channel() + clones)
MaxClones   == 1   \* clone calls, except under CloneDropSpec
MaxSends    == 3   \* send calls over all handles
MaxRecvs    == 4   \* recv calls
MaxFairSends == 2  \* send calls under FairSpec
MaxFairRecvs == 2  \* recv calls under FairSpec
MaxThreads  == 2   \* threads calling Mutex::with_lock
MaxIters    == 2   \* with_lock calls of each thread
MaxGuards   == 3   \* guards of the RefCell alive at a time
MaxWrites   == 2   \* writes through a RefMut
MaxPanics   == 2   \* panicking borrow calls, and panicking borrow_mut calls
MaxRcs      == 5   \* Rc handles ever made (Rc::new + clones)
MaxHay      == 3   \* length of the haystack of a StrSplit
MaxDelim    == 2   \* length of its delimiter
MaxNext     == 5   \* calls of its next()

Handles  == 1..MaxHandles
Threads  == 1..MaxThreads
\* The thread that owns the Receiver (Sender threads are named by their handle).
RxThread == 0
NoVal    == <<0, 0>>

VARIABLES
  queue,     \* Inner.queue: the shared VecDeque
  senders,   \* Inner.senders
  mu,        \* Shared.mu: the set of threads holding the mutex
  avail,     \* Shared.avail: the set of threads parked in Condvar::wait
  strong,    \* strong count of the Arc<Shared<T>>
  buf,       \* Receiver.buf
  pc,        \* per Sender handle: where its thread stands
  rpc,       \* where the Receiver's thread stands
  dsenders,  \* per Sender handle: the local `senders` of Drop::drop
  nsend,     \* per Sender handle: send calls made on it
  sent,      \* history: the values pushed, in push order
  results,   \* history: what the recv calls returned, in order
  rcall,     \* history: the channel as the recv call in progress found it
  rxGoneAt,  \* history: Len(sent) when the Receiver was dropped, -1 before
  refQueue,  \* reference channel (recv without the buffer swap): its queue
  refResults,\* reference channel: what its recv calls returned
  signalled  \* history: notify_one calls issued, per handle, by send and by drop

vars == <<queue, senders, mu, avail, strong, buf, pc, rpc, dsenders, nsend,
          sent, results, rcall, rxGoneAt, refQueue, refResults, signalled>>

\* atomics.rs: Mutex<T> and the threads of test_mutex_valid
VARIABLES
  lock,      \* Mutex.lock: the AtomicBool
  v,         \* Mutex.v: the protected value
  tpc,       \* per thread: where it stands in with_lock
  tdone,     \* per thread: with_lock calls completed
  tval,      \* per thread: the value the closure read from *v
  mpc,       \* where the test's main thread stands
  ret,       \* the local `ret` of the main thread's with_lock call
  got        \* what that call returned, -1 before

\* The main thread's part.
mainVars == <<mpc, ret, got>>

mutexVars == <<lock, v, tpc, tdone, tval, mainVars>>

\* refcell.rs: one RefCell<T> and the guards borrowed from it
VARIABLES
  references, \* RefCell.references
  inner,      \* RefCell.inner: the value
  guards,     \* per guard slot: "none", "Ref" or "RefMut"
  panics      \* history: borrow and borrow_mut calls that panicked

refcellVars == <<references, inner, guards, panics>>

\* rc.rs: one RcInner<T> and the Rc handles to it
VARIABLES
  ref_count,  \* RcInner.ref_count
  allocated,  \* whether the Box holding the RcInner has been released
  rcs,        \* per Rc slot: "none", "live" or "dropped"
  dropped     \* history: how many times the inner value was dropped

rcVars == <<ref_count, allocated, rcs, dropped>>

\* lifetimes.rs: one StrSplit and what its next() has returned
VARIABLES
  haystack,   \* the argument of StrSplit::new
  delimiter,  \* StrSplit.delimiter
  remainder,  \* StrSplit.remainder: an Option<&str>
  yielded     \* history: what the next() calls returned, in order

splitVars == <<haystack, delimiter, remainder, yielded>>

\* atomics.rs: atomic_sequentially_consistent
VARIABLES
  atomics,    \* the leaked atomics: [x, y: AtomicBool, z: AtomicUsize]
  apc,        \* per thread (_tx, _ty, t1, t2, main): where it stands
  saw,        \* t1, t2: what the load in its `if` returned, {} before
  zfinal,     \* the local _z of the main thread, -1 before
  ord         \* the ordering of the loads and stores of x and y

atomicsVars == <<atomics, apc, saw, zfinal, ord>>

\* What a step of the channel leaves alone: the other modules.
elsewhere == <<mutexVars, refcellVars, rcVars, splitVars, atomicsVars>>

allVars == <<vars, elsewhere>>

----------------------------------------------------------------------------
\* VecDeque, Result and Condvar as the code uses them.

\* Variant: push_front in place of push_back.
PushFront(q, x) == <<x>> \o q

\* VecDeque::push_back
PushBack(q, x) == Append(q, x)

\* Variant: the front is read and left in place.
PopFrontPeek(q) == <<Head(q), q>>

\* VecDeque::pop_front on a non-empty deque: <<front, rest>>
PopFront(q) == <<Head(q), Tail(q)>>

\* Variant: a copy in place of the swap, the source left as it was.
MemSwapCopy(a, b) == <<b, b>>

\* std::mem::swap(a, b): the pair after the swap
MemSwap(a, b) == <<b, a>>

\* Ok(val)
Ok(x) == [ok |-> TRUE, val |-> x]

\* Err(RecvError {})
RecvError == [ok |-> FALSE, val |-> NoVal]

\* Variant: a notify_one that wakes nobody.
NotifyNobody(waiters) == {waiters}

\* Condvar::notify_one: wakes one parked thread, if any.  A woken thread has
\* left the set and still has to reacquire the mutex.
NotifyOne(waiters) ==
  IF waiters = {} THEN {waiters} ELSE {waiters \ {w} : w \in waiters}

\* The value a drop of the last Arc leaves in the queue: the Shared block,
\* and with it the queue's contents, is released when the count reaches 0.
ArcRelease(cnt, q) == IF cnt = 0 THEN <<>> ELSE q

\* Variant: no `None if inner.senders == 0` arm, an empty queue always waits.
MatchArmNoClosed(q, n) == IF q # <<>> THEN "Some" ELSE "Wait"

\* Variant: an empty queue reports RecvError whatever the sender count.
MatchArmIgnoreSenders(q, n) == IF q # <<>> THEN "Some" ELSE "Closed"

\* Variant: the arm's guard off by one, `inner.senders <= 1`.
MatchArmOffByOne(q, n) ==
  IF q # <<>> THEN "Some" ELSE IF n <= 1 THEN "Closed" ELSE "Wait"

\* Variant: the sender count is looked at before the queue.
MatchArmClosedFirst(q, n) ==
  IF n = 0 THEN "Closed" ELSE IF q # <<>> THEN "Some" ELSE "Wait"

\* The arm that `match inner.queue.pop_front()` takes in recv's loop, given
\* the queue and the sender count: Some(val), None if senders == 0, None.
MatchArm(q, n) ==
  IF q # <<>> THEN "Some" ELSE IF n = 0 THEN "Closed" ELSE "Wait"

\* Variant: the swap only when more than one value remains.
SwapIfMany(b, rest) == IF Len(rest) > 1 THEN MemSwap(b, rest) ELSE <<b, rest>>

\* if !inner.queue.is_empty() { std::mem::swap(&mut self.buf, &mut inner.queue); }
\* with the queue as pop_front left it: <<buf, queue>> afterwards.
SwapIfNonEmpty(b, rest) == IF rest # <<>> THEN MemSwap(b, rest) ELSE <<b, rest>>

\* What recv's loop does without the buffer swap, on queue q with n senders:
\* the result and the queue it leaves.  Where the loop would enter
\* Condvar::wait it returns nothing: WouldWait stands for that.
WouldWait == [ok |-> FALSE, val |-> <<-1, -1>>]
RefRecv(q, n) ==
  CASE MatchArm(q, n) = "Some"   -> [res |-> Ok(PopFront(q)[1]), q |-> PopFront(q)[2]]
    [] MatchArm(q, n) = "Closed" -> [res |-> RecvError, q |-> q]
    [] OTHER                     -> [res |-> WouldWait, q |-> q]

RECURSIVE SumOver(_, _)
SumOver(f, S) ==
  IF S = {} THEN 0 ELSE LET x == CHOOSE y \in S : TRUE IN f[x] + SumOver(f, S \ {x})

\* send calls made so far, over all handles.
SendCalls == SumOver(nsend, Handles)

\* The argument of the send call in progress on handle h.
SendVal(h) == <<h, nsend[h]>>

----------------------------------------------------------------------------
\* Variant: a channel built with a sender count of 0.
InitNoSender ==
  /\ queue = <<>>
  /\ senders = 0
  /\ mu = {}
  /\ avail = {}
  /\ strong = 2
  /\ buf = <<>>
  /\ pc = [h \in Handles |-> IF h = 1 THEN "idle" ELSE "none"]
  /\ rpc = "idle"
  /\ dsenders = [h \in Handles |-> 0]
  /\ nsend = [h \in Handles |-> 0]
  /\ sent = <<>>
  /\ results = <<>>
  /\ rcall = [kind |-> "none", sent |-> 0, waited |-> FALSE, fast |-> FALSE]
  /\ rxGoneAt = -1
  /\ refQueue = <<>>
  /\ refResults = <<>>
  /\ signalled = [send |-> [h \in Handles |-> 0], drop |-> [h \in Handles |-> 0]]

\* channel()
Init ==
  /\ queue = <<>>
  /\ senders = 1
  /\ mu = {}
  /\ avail = {}
  /\ strong = 2
  /\ buf = <<>>
  /\ pc = [h \in Handles |-> IF h = 1 THEN "idle" ELSE "none"]
  /\ rpc = "idle"
  /\ dsenders = [h \in Handles |-> 0]
  /\ nsend = [h \in Handles |-> 0]
  /\ sent = <<>>
  /\ results = <<>>
  /\ rcall = [kind |-> "none", sent |-> 0, waited |-> FALSE, fast |-> FALSE]
  /\ rxGoneAt = -1
  /\ refQueue = <<>>
  /\ refResults = <<>>
  /\ signalled = [send |-> [h \in Handles |-> 0], drop |-> [h \in Handles |-> 0]]

rxVars   == <<buf, rpc, results, rcall, rxGoneAt>>
refVars  == <<refQueue, refResults>>

----------------------------------------------------------------------------
\* Sender::send

\* let mut inner = self.inner.mu.lock().unwrap();
\* Variant: send signals the condition on taking the lock, before its push.
SendLockNotifyFirst(h) ==
  /\ pc[h] = "idle"
  /\ SendCalls < MaxSends
  /\ mu = {}
  /\ mu' = {h}
  /\ nsend' = [nsend EXCEPT ![h] = @ + 1]
  /\ pc' = [pc EXCEPT ![h] = "s_push"]
  /\ avail' \in NotifyOne(avail)
  /\ UNCHANGED <<queue, senders, strong, dsenders, sent, rxVars>>
  /\ UNCHANGED refVars
  /\ signalled' = [signalled EXCEPT !.send[h] = @ + 1]
  /\ UNCHANGED elsewhere

SendLock(h) ==
  /\ pc[h] = "idle"
  /\ SendCalls < MaxSends
  /\ mu = {}
  /\ mu' = {h}
  /\ nsend' = [nsend EXCEPT ![h] = @ + 1]
  /\ pc' = [pc EXCEPT ![h] = "s_push"]
  /\ UNCHANGED <<queue, senders, avail, strong, dsenders, sent, rxVars>>
  /\ UNCHANGED refVars
  /\ UNCHANGED signalled
  /\ UNCHANGED elsewhere

\* Variant: send gives up, and drops the value, once the Receiver is gone.
SendPushUnlessRxGone(h) ==
  /\ pc[h] = "s_push"
  /\ queue' = IF rpc = "dropped" THEN queue ELSE PushBack(queue, SendVal(h))
  /\ sent' = Append(sent, SendVal(h))
  /\ mu' = mu \ {h}
  /\ pc' = [pc EXCEPT ![h] = "s_notify"]
  /\ UNCHANGED <<senders, avail, strong, dsenders, nsend, rxVars>>
  /\ refQueue' = PushBack(refQueue, SendVal(h))
  /\ UNCHANGED refResults
  /\ UNCHANGED signalled
  /\ UNCHANGED elsewhere

\* Variant: send without its drop(inner), the guard kept past the notify_one.
SendPushKeepLock(h) ==
  /\ pc[h] = "s_push"
  /\ queue' = PushBack(queue, SendVal(h))
  /\ sent' = Append(sent, SendVal(h))
  /\ pc' = [pc EXCEPT ![h] = "s_notify"]
  /\ UNCHANGED <<senders, mu, avail, strong, dsenders, nsend, rxVars>>
  /\ refQueue' = PushBack(refQueue, SendVal(h))
  /\ UNCHANGED refResults
  /\ UNCHANGED signalled
  /\ UNCHANGED elsewhere

\* inner.queue.push_back(val); drop(inner);
SendPush(h) ==
  /\ pc[h] = "s_push"
  /\ queue' = PushBack(queue, SendVal(h))
  /\ sent' = Append(sent, SendVal(h))
  /\ mu' = mu \ {h}
  /\ pc' = [pc EXCEPT ![h] = "s_notify"]
  /\ UNCHANGED <<senders, avail, strong, dsenders, nsend, rxVars>>
  /\ refQueue' = PushBack(refQueue, SendVal(h))
  /\ UNCHANGED refResults
  /\ UNCHANGED signalled
  /\ UNCHANGED elsewhere

\* Variant: send without the notify_one.
SendNoNotify(h) ==
  /\ pc[h] = "s_notify"
  /\ pc' = [pc EXCEPT ![h] = "idle"]
  /\ UNCHANGED <<queue, senders, mu, avail, strong, dsenders, nsend, sent, rxVars>>
  /\ UNCHANGED refVars
  /\ UNCHANGED signalled
  /\ UNCHANGED elsewhere

\* self.inner.avail.notify_one();
SendNotify(h) ==
  /\ pc[h] = "s_notify"
  /\ avail' \in NotifyOne(avail)
  /\ pc' = [pc EXCEPT ![h] = "idle"]
  /\ UNCHANGED <<queue, senders, mu, strong, dsenders, nsend, sent, rxVars>>
  /\ UNCHANGED refVars
  /\ signalled' = [signalled EXCEPT !.send[h] = @ + 1]
  /\ UNCHANGED elsewhere

----------------------------------------------------------------------------
\* Clone for Sender

\* The slot the next clone gets.
FreeSlots == {g \in Handles : pc[g] = "none"}
NewSlot   == CHOOSE g \in FreeSlots : \A k \in FreeSlots : g <= k

\* let mut guard = self.inner.mu.lock().unwrap();
CloneLock(h) ==
  /\ pc[h] = "idle"
  /\ Cardinality({g \in Handles : pc[g] \in {"c_inc", "c_new"}}) < Cardinality(FreeSlots)
  /\ mu = {}
  /\ mu' = {h}
  /\ pc' = [pc EXCEPT ![h] = "c_inc"]
  /\ UNCHANGED <<queue, senders, avail, strong, dsenders, nsend, sent, rxVars>>
  /\ UNCHANGED refVars
  /\ UNCHANGED signalled
  /\ UNCHANGED elsewhere

\* Variant: clone as a mere copy of the pointer, the count left alone.
CloneNoInc(h) ==
  /\ pc[h] = "c_inc"
  /\ mu' = mu \ {h}
  /\ pc' = [pc EXCEPT ![h] = "c_new"]
  /\ UNCHANGED <<queue, senders, avail, strong, dsenders, nsend, sent, rxVars>>
  /\ UNCHANGED refVars
  /\ UNCHANGED signalled
  /\ UNCHANGED elsewhere

\* Variant: an unlocked read-modify-write of the count, the increment lost
\* when it races the decrement of another Sender's drop.
CloneIncRacy(h) ==
  /\ pc[h] = "c_inc"
  /\ senders' = IF \E g \in Handles : pc[g] = "d_notify" THEN senders ELSE senders + 1
  /\ mu' = mu \ {h}
  /\ pc' = [pc EXCEPT ![h] = "c_new"]
  /\ UNCHANGED <<queue, avail, strong, dsenders, nsend, sent, rxVars>>
  /\ UNCHANGED refVars
  /\ UNCHANGED signalled
  /\ UNCHANGED elsewhere

\* guard.senders += 1; drop(guard);
CloneInc(h) ==
  /\ pc[h] = "c_inc"
  /\ senders' = senders + 1
  /\ mu' = mu \ {h}
  /\ pc' = [pc EXCEPT ![h] = "c_new"]
  /\ UNCHANGED <<queue, avail, strong, dsenders, nsend, sent, rxVars>>
  /\ UNCHANGED refVars
  /\ UNCHANGED signalled
  /\ UNCHANGED elsewhere

\* Self { inner: Arc::clone(&self.inner) }
CloneNew(h) ==
  /\ pc[h] = "c_new"
  /\ strong' = strong + 1
  /\ pc' = [pc EXCEPT ![h] = "idle", ![NewSlot] = "idle"]
  /\ UNCHANGED <<queue, senders, mu, avail, dsenders, nsend, sent, rxVars>>
  /\ UNCHANGED refVars
  /\ UNCHANGED signalled
  /\ UNCHANGED elsewhere

----------------------------------------------------------------------------
\* Drop for Sender

\* let mut guard = self.inner.mu.lock().unwrap();
DropLock(h) ==
  /\ pc[h] = "idle"
  /\ mu = {}
  /\ mu' = {h}
  /\ pc' = [pc EXCEPT ![h] = "d_dec"]
  /\ UNCHANGED <<queue, senders, avail, strong, dsenders, nsend, sent, rxVars>>
  /\ UNCHANGED refVars
  /\ UNCHANGED signalled
  /\ UNCHANGED elsewhere

\* Variant: the local is read before the decrement.
DropDecStaleLocal(h) ==
  /\ pc[h] = "d_dec"
  /\ senders' = senders - 1
  /\ dsenders' = [dsenders EXCEPT ![h] = senders]
  /\ mu' = mu \ {h}
  /\ pc' = [pc EXCEPT ![h] = "d_notify"]
  /\ UNCHANGED <<queue, avail, strong, nsend, sent, rxVars>>
  /\ UNCHANGED refVars
  /\ UNCHANGED signalled
  /\ UNCHANGED elsewhere

\* guard.senders -= 1; let senders = guard.senders; drop(guard);
DropDec(h) ==
  /\ pc[h] = "d_dec"
  /\ senders' = senders - 1
  /\ dsenders' = [dsenders EXCEPT ![h] = senders - 1]
  /\ mu' = mu \ {h}
  /\ pc' = [pc EXCEPT ![h] = "d_notify"]
  /\ UNCHANGED <<queue, avail, strong, nsend, sent, rxVars>>
  /\ UNCHANGED refVars
  /\ UNCHANGED signalled
  /\ UNCHANGED elsewhere

\* Variant: the last drop does not notify.
DropNoNotify(h) ==
  /\ pc[h] = "d_notify"
  /\ strong' = strong - 1
  /\ queue' = ArcRelease(strong - 1, queue)
  /\ dsenders' = [dsenders EXCEPT ![h] = 0]
  /\ pc' = [pc EXCEPT ![h] = "dead"]
  /\ UNCHANGED <<senders, mu, avail, nsend, sent, rxVars>>
  /\ refQueue' = ArcRelease(strong - 1, refQueue)
  /\ UNCHANGED refResults
  /\ UNCHANGED signalled
  /\ UNCHANGED elsewhere

\* Variant: the drop that leaves no Sender also clears the shared queue.
DropNotifyClearQueue(h) ==
  /\ pc[h] = "d_notify"
  /\ IF dsenders[h] = 0 THEN avail' \in NotifyOne(avail) ELSE avail' = avail
  /\ strong' = strong - 1
  /\ queue' = IF dsenders[h] = 0 THEN <<>> ELSE ArcRelease(strong - 1, queue)
  /\ dsenders' = [dsenders EXCEPT ![h] = 0]
  /\ pc' = [pc EXCEPT ![h] = "dead"]
  /\ UNCHANGED <<senders, mu, nsend, sent, rxVars>>
  /\ refQueue' = ArcRelease(strong - 1, refQueue)
  /\ UNCHANGED refResults
  /\ signalled' = [signalled EXCEPT !.drop[h] = IF dsenders[h] = 0 THEN @ + 1 ELSE @]
  /\ UNCHANGED elsewhere

\* Variant: every drop notifies, whatever count it left.
DropNotifyAlways(h) ==
  /\ pc[h] = "d_notify"
  /\ avail' \in NotifyOne(avail)
  /\ strong' = strong - 1
  /\ queue' = ArcRelease(strong - 1, queue)
  /\ dsenders' = [dsenders EXCEPT ![h] = 0]
  /\ pc' = [pc EXCEPT ![h] = "dead"]
  /\ UNCHANGED <<senders, mu, nsend, sent, rxVars>>
  /\ refQueue' = ArcRelease(strong - 1, refQueue)
  /\ UNCHANGED refResults
  /\ signalled' = [signalled EXCEPT !.drop[h] = @ + 1]
  /\ UNCHANGED elsewhere

\* if senders == 0 { self.inner.avail.notify_one(); }
\* As drop() returns the field `inner` is dropped: the Arc's count goes down,
\* and the last Arc releases the Shared block.
DropNotify(h) ==
  /\ pc[h] = "d_notify"
  /\ IF dsenders[h] = 0 THEN avail' \in NotifyOne(avail) ELSE avail' = avail
  /\ strong' = strong - 1
  /\ queue' = ArcRelease(strong - 1, queue)
  /\ dsenders' = [dsenders EXCEPT ![h] = 0]
  /\ pc' = [pc EXCEPT ![h] = "dead"]
  /\ UNCHANGED <<senders, mu, nsend, sent, rxVars>>
  /\ refQueue' = ArcRelease(strong - 1, refQueue)
  /\ UNCHANGED refResults
  /\ signalled' = [signalled EXCEPT !.drop[h] = IF dsenders[h] = 0 THEN @ + 1 ELSE @]
  /\ UNCHANGED elsewhere

----------------------------------------------------------------------------
\* Receiver::recv

senderVars == <<pc, dsenders, nsend, sent, signalled>>

\* How a recv call finds the channel as it starts.
CallKind ==
  IF buf # <<>> \/ queue # <<>> THEN "data"
  ELSE IF senders = 0 THEN "closed" ELSE "open"

\* Variant: the fast path takes the buffer's back element (pop_back).
RecvFastPopBack ==
  /\ rpc = "idle"
  /\ Len(results) < MaxRecvs
  /\ buf # <<>>
  /\ buf' = SubSeq(buf, 1, Len(buf) - 1)
  /\ results' = Append(results, Ok(buf[Len(buf)]))
  /\ rcall' = [kind |-> CallKind, sent |-> Len(sent), waited |-> FALSE, fast |-> TRUE]
  /\ UNCHANGED <<queue, senders, mu, avail, strong, rpc, rxGoneAt, senderVars>>
  /\ refQueue' = RefRecv(refQueue, senders).q
  /\ refResults' = Append(refResults, RefRecv(refQueue, senders).res)
  /\ UNCHANGED elsewhere

\* Variant: the fast path goes through the mutex.
RecvFastLocked ==
  /\ rpc = "idle"
  /\ Len(results) < MaxRecvs
  /\ buf # <<>>
  /\ mu = {}
  /\ buf' = PopFront(buf)[2]
  /\ results' = Append(results, Ok(PopFront(buf)[1]))
  /\ rcall' = [kind |-> CallKind, sent |-> Len(sent), waited |-> FALSE, fast |-> TRUE]
  /\ UNCHANGED <<queue, senders, mu, avail, strong, rpc, rxGoneAt, senderVars>>
  /\ refQueue' = RefRecv(refQueue, senders).q
  /\ refResults' = Append(refResults, RefRecv(refQueue, senders).res)
  /\ UNCHANGED elsewhere

\* if let Some(val) = self.buf.pop_front() { return Ok(val); }
RecvFast ==
  /\ rpc = "idle"
  /\ Len(results) < MaxRecvs
  /\ buf # <<>>
  /\ buf' = PopFront(buf)[2]
  /\ results' = Append(results, Ok(PopFront(buf)[1]))
  /\ rcall' = [kind |-> CallKind, sent |-> Len(sent), waited |-> FALSE, fast |-> TRUE]
  /\ UNCHANGED <<queue, senders, mu, avail, strong, rpc, rxGoneAt, senderVars>>
  /\ refQueue' = RefRecv(refQueue, senders).q
  /\ refResults' = Append(refResults, RefRecv(refQueue, senders).res)
  /\ UNCHANGED elsewhere

\* Variant: recv goes on to the lock whatever the buffer holds.
RecvSlowAnyBuf ==
  /\ rpc = "idle"
  /\ Len(results) < MaxRecvs
  /\ rpc' = "r_lock"
  /\ rcall' = [kind |-> CallKind, sent |-> Len(sent), waited |-> FALSE, fast |-> FALSE]
  /\ UNCHANGED <<queue, senders, mu, avail, strong, buf, results, rxGoneAt, senderVars>>
  /\ UNCHANGED refVars
  /\ UNCHANGED elsewhere

\* The same `if let`, finding the buffer empty: on to the lock.
RecvSlow ==
  /\ rpc = "idle"
  /\ Len(results) < MaxRecvs
  /\ buf = <<>>
  /\ rpc' = "r_lock"
  /\ rcall' = [kind |-> CallKind, sent |-> Len(sent), waited |-> FALSE, fast |-> FALSE]
  /\ UNCHANGED <<queue, senders, mu, avail, strong, buf, results, rxGoneAt, senderVars>>
  /\ UNCHANGED refVars
  /\ UNCHANGED elsewhere

\* let mut inner = self.inner.mu.lock().unwrap();
RecvLock ==
  /\ rpc = "r_lock"
  /\ mu = {}
  /\ mu' = {RxThread}
  /\ rpc' = "r_loop"
  /\ UNCHANGED <<queue, senders, avail, strong, buf, results, rcall, rxGoneAt, senderVars>>
  /\ UNCHANGED refVars
  /\ UNCHANGED elsewhere

\* Variant: a wait that parks the thread with the mutex still locked.
RecvLoopWaitLocked ==
  /\ rpc = "r_loop"
  /\ CASE MatchArm(queue, senders) = "Some" ->
            LET val  == PopFront(queue)[1]
                rest == PopFront(queue)[2]
                swp  == SwapIfNonEmpty(buf, rest)
            IN /\ buf' = swp[1]
               /\ queue' = swp[2]
               /\ results' = Append(results, Ok(val))
               /\ mu' = mu \ {RxThread}
               /\ rpc' = "idle"
               /\ UNCHANGED <<avail, rcall>>
       [] MatchArm(queue, senders) = "Closed" ->
               /\ results' = Append(results, RecvError)
               /\ mu' = mu \ {RxThread}
               /\ rpc' = "idle"
               /\ UNCHANGED <<queue, buf, avail, rcall>>
       [] OTHER ->
               /\ mu' = mu
               /\ avail' = avail \cup {RxThread}
               /\ rpc' = "r_wait"
               /\ rcall' = [rcall EXCEPT !.waited = TRUE]
               /\ UNCHANGED <<queue, buf, results>>
  /\ UNCHANGED <<senders, strong, rxGoneAt, senderVars>>
  /\ IF MatchArm(queue, senders) = "Wait"
       THEN UNCHANGED refVars
       ELSE /\ refQueue' = RefRecv(refQueue, senders).q
            /\ refResults' = Append(refResults, RefRecv(refQueue, senders).res)
  /\ UNCHANGED elsewhere

\* One turn of the loop, the guard held: match inner.queue.pop_front() { .. }.
\* The two returning arms drop the guard as the function returns; the third
\* enters Condvar::wait, which releases the mutex and parks the thread.
RecvLoop ==
  /\ rpc = "r_loop"
  /\ CASE MatchArm(queue, senders) = "Some" ->
            LET val  == PopFront(queue)[1]
                rest == PopFront(queue)[2]
                swp  == SwapIfNonEmpty(buf, rest)
            IN /\ buf' = swp[1]
               /\ queue' = swp[2]
               /\ results' = Append(results, Ok(val))
               /\ mu' = mu \ {RxThread}
               /\ rpc' = "idle"
               /\ UNCHANGED <<avail, rcall>>
       [] MatchArm(queue, senders) = "Closed" ->
               /\ results' = Append(results, RecvError)
               /\ mu' = mu \ {RxThread}
               /\ rpc' = "idle"
               /\ UNCHANGED <<queue, buf, avail, rcall>>
       [] OTHER ->
               /\ mu' = mu \ {RxThread}
               /\ avail' = avail \cup {RxThread}
               /\ rpc' = "r_wait"
               /\ rcall' = [rcall EXCEPT !.waited = TRUE]
               /\ UNCHANGED <<queue, buf, results>>
  /\ UNCHANGED <<senders, strong, rxGoneAt, senderVars>>
  /\ IF MatchArm(queue, senders) = "Wait"
       THEN UNCHANGED refVars
       ELSE /\ refQueue' = RefRecv(refQueue, senders).q
            /\ refResults' = Append(refResults, RefRecv(refQueue, senders).res)
  /\ UNCHANGED elsewhere

\* Variant: a wait that returns without reacquiring the mutex.
RecvWakeNoLock ==
  /\ rpc = "r_wait"
  /\ RxThread \notin avail
  /\ rpc' = "r_loop"
  /\ UNCHANGED <<queue, senders, mu, avail, strong, buf, results, rcall, rxGoneAt, senderVars>>
  /\ UNCHANGED refVars
  /\ UNCHANGED elsewhere

\* Variant: a wake-up trusted without the loop: woken on an empty queue, recv
\* takes the channel for closed and returns.
RecvWakeTrusting ==
  /\ rpc = "r_wait"
  /\ RxThread \notin avail
  /\ mu = {}
  /\ IF queue = <<>>
       THEN /\ results' = Append(results, RecvError)
            /\ rpc' = "idle"
            /\ mu' = mu
       ELSE /\ results' = results
            /\ rpc' = "r_loop"
            /\ mu' = {RxThread}
  /\ UNCHANGED <<queue, senders, avail, strong, buf, rcall, rxGoneAt, senderVars>>
  /\ UNCHANGED refVars
  /\ UNCHANGED elsewhere

\* Condvar::wait returning after a notify_one: the mutex is reacquired.
RecvWake ==
  /\ rpc = "r_wait"
  /\ RxThread \notin avail
  /\ mu = {}
  /\ mu' = {RxThread}
  /\ rpc' = "r_loop"
  /\ UNCHANGED <<queue, senders, avail, strong, buf, results, rcall, rxGoneAt, senderVars>>
  /\ UNCHANGED refVars
  /\ UNCHANGED elsewhere

\* Condvar::wait may return without any notify_one.
SpuriousWake ==
  /\ rpc = "r_wait"
  /\ RxThread \in avail
  /\ avail' = avail \ {RxThread}
  /\ UNCHANGED <<queue, senders, mu, strong, buf, rpc, results, rcall, rxGoneAt, senderVars>>
  /\ UNCHANGED refVars
  /\ UNCHANGED elsewhere

\* The Receiver goes out of scope: its fields `inner` and `buf` are dropped.
RecvDrop ==
  /\ rpc = "idle"
  /\ rpc' = "dropped"
  /\ buf' = <<>>
  /\ strong' = strong - 1
  /\ queue' = ArcRelease(strong - 1, queue)
  /\ rxGoneAt' = Len(sent)
  /\ UNCHANGED <<senders, mu, avail, results, rcall, senderVars>>
  /\ refQueue' = ArcRelease(strong - 1, refQueue)
  /\ UNCHANGED refResults
  /\ UNCHANGED elsewhere

----------------------------------------------------------------------------
\* atomics.rs: the spin-lock Mutex, driven as in test_mutex_valid: every
\* thread calls mu.with_lock(|v| *v += 1) MaxIters times; the main thread
\* joins them and calls mu.with_lock(|v| *v).

LOCKED   == TRUE
UNLOCKED == FALSE

\* What a step of a with_lock call leaves alone.
outsideMutex == <<vars, refcellVars, rcVars, splitVars, atomicsVars>>

\* Mutex::new(0), and the threads spawned, none having run.
MutexInit ==
  /\ lock = UNLOCKED
  /\ v = 0
  /\ tpc = [t \in Threads |-> "cas"]
  /\ tdone = [t \in Threads |-> 0]
  /\ tval = [t \in Threads |-> 0]
  /\ mpc = "join"
  /\ ret = -1
  /\ got = -1

\* Variant: the flag is stored without being compared.
CompareExchangeBlind(cur, expected, new) == {[ok |-> TRUE, now |-> new]}

\* AtomicBool::compare_exchange_weak(expected, new, ..): the outcomes it can
\* have on a flag holding cur.  It may fail although cur = expected.
CompareExchangeWeak(cur, expected, new) ==
  IF cur = expected
    THEN {[ok |-> TRUE, now |-> new], [ok |-> FALSE, now |-> cur]}
    ELSE {[ok |-> FALSE, now |-> cur]}

\* while self.lock.compare_exchange_weak(UNLOCKED, LOCKED, ..).is_err() { .. }
WithLockCas(t) ==
  /\ tpc[t] = "cas"
  /\ \E r \in CompareExchangeWeak(lock, UNLOCKED, LOCKED) :
       /\ lock' = r.now
       /\ tpc' = [tpc EXCEPT ![t] = IF r.ok THEN "read" ELSE "spin"]
  /\ UNCHANGED <<v, tdone, tval>>
  /\ UNCHANGED mainVars
  /\ UNCHANGED outsideMutex

\* while self.lock.load(Relaxed) == LOCKED { spin_loop() }: the load that
\* ends the inner loop (a load that finds LOCKED changes nothing).
WithLockSpin(t) ==
  /\ tpc[t] = "spin"
  /\ lock # LOCKED
  /\ tpc' = [tpc EXCEPT ![t] = "cas"]
  /\ UNCHANGED <<lock, v, tdone, tval>>
  /\ UNCHANGED mainVars
  /\ UNCHANGED outsideMutex

\* f(&mut *self.v.get()) with f = |v| *v += 1: the read of *v
ClosureRead(t) ==
  /\ tpc[t] = "read"
  /\ tval' = [tval EXCEPT ![t] = v]
  /\ tpc' = [tpc EXCEPT ![t] = "write"]
  /\ UNCHANGED <<lock, v, tdone>>
  /\ UNCHANGED mainVars
  /\ UNCHANGED outsideMutex

\* ... and the write of the sum
ClosureWrite(t) ==
  /\ tpc[t] = "write"
  /\ v' = tval[t] + 1
  /\ tpc' = [tpc EXCEPT ![t] = "store"]
  /\ UNCHANGED <<lock, tdone, tval>>
  /\ UNCHANGED mainVars
  /\ UNCHANGED outsideMutex

\* Variant: with_lock returns without its releasing store.
WithLockStoreKeepsFlag(t) ==
  /\ tpc[t] = "store"
  /\ lock' = lock
  /\ tdone' = [tdone EXCEPT ![t] = @ + 1]
  /\ tpc' = [tpc EXCEPT ![t] = IF tdone[t] + 1 < MaxIters THEN "cas" ELSE "done"]
  /\ UNCHANGED <<v, tval>>
  /\ UNCHANGED mainVars
  /\ UNCHANGED outsideMutex

\* self.lock.store(UNLOCKED, Release); the call returns, and the thread's
\* loop goes on to its next call or ends.
WithLockStore(t) ==
  /\ tpc[t] = "store"
  /\ lock' = UNLOCKED
  /\ tdone' = [tdone EXCEPT ![t] = @ + 1]
  /\ tpc' = [tpc EXCEPT ![t] = IF tdone[t] + 1 < MaxIters THEN "cas" ELSE "done"]
  /\ UNCHANGED <<v, tval>>
  /\ UNCHANGED mainVars
  /\ UNCHANGED outsideMutex

\* for handle in handles { handle.join().unwrap(); }
MainJoin ==
  /\ mpc = "join"
  /\ \A t \in Threads : tpc[t] = "done"
  /\ mpc' = "cas"
  /\ UNCHANGED <<lock, v, tpc, tdone, tval, ret, got>>
  /\ UNCHANGED outsideMutex

\* mu.with_lock(|v| *v) on the main thread: the compare_exchange_weak ..
MainCas ==
  /\ mpc = "cas"
  /\ \E r \in CompareExchangeWeak(lock, UNLOCKED, LOCKED) :
       /\ lock' = r.now
       /\ mpc' = IF r.ok THEN "read" ELSE "spin"
  /\ UNCHANGED <<v, tpc, tdone, tval, ret, got>>
  /\ UNCHANGED outsideMutex

\* .. the inner spin loop ..
MainSpin ==
  /\ mpc = "spin"
  /\ lock # LOCKED
  /\ mpc' = "cas"
  /\ UNCHANGED <<lock, v, tpc, tdone, tval, ret, got>>
  /\ UNCHANGED outsideMutex

\* .. let ret = f(unsafe { &mut *self.v.get() }); with f = |v| *v ..
MainClosure ==
  /\ mpc = "read"
  /\ ret' = v
  /\ mpc' = "store"
  /\ UNCHANGED <<lock, v, tpc, tdone, tval, got>>
  /\ UNCHANGED outsideMutex

\* .. self.lock.store(UNLOCKED, Release); ret
MainStore ==
  /\ mpc = "store"
  /\ lock' = UNLOCKED
  /\ got' = ret
  /\ mpc' = "done"
  /\ UNCHANGED <<v, tpc, tdone, tval, ret>>
  /\ UNCHANGED outsideMutex

MutexStep ==
  \/ \E t \in Threads : WithLockCas(t)
  \/ \E t \in Threads : WithLockSpin(t)
  \/ \E t \in Threads : ClosureRead(t)
  \/ \E t \in Threads : ClosureWrite(t)
  \/ \E t \in Threads : WithLockStore(t)
  \/ MainJoin
  \/ MainCas
  \/ MainSpin
  \/ MainClosure
  \/ MainStore

\* The threads inside the closure: between the successful compare-and-swap
\* and the releasing store.
InClosure == {t \in Threads : tpc[t] \in {"read", "write", "store"}}

----------------------------------------------------------------------------
\* refcell.rs: one RefCell and the guards borrowed from it.  A guard lives
\* in a slot (the variable that holds it) until it is dropped.  A call that
\* panics is caught by its caller, which goes on.

MUTABLE_BORROW == -1

GuardSlots == 1..MaxGuards

\* What a step on the RefCell leaves alone.
outsideRefCell == <<vars, mutexVars, rcVars, splitVars, atomicsVars>>

\* RefCell::new(0), nothing borrowed.
RefCellInit ==
  /\ references = 0
  /\ inner = 0
  /\ guards = [g \in GuardSlots |-> "none"]
  /\ panics = [borrow |-> 0, borrow_mut |-> 0]

\* Variant: borrow without its assert.
BorrowNoCheck(g) ==
  /\ guards[g] = "none"
  /\ references' = references + 1
  /\ guards' = [guards EXCEPT ![g] = "Ref"]
  /\ UNCHANGED <<inner, panics>>
  /\ UNCHANGED outsideRefCell

\* RefCell::borrow, its guard kept in slot g
Borrow(g) ==
  /\ guards[g] = "none"
  /\ IF references # MUTABLE_BORROW
       THEN /\ references' = references + 1
            /\ guards' = [guards EXCEPT ![g] = "Ref"]
            /\ UNCHANGED panics
       ELSE /\ panics.borrow < MaxPanics
            /\ panics' = [panics EXCEPT !.borrow = @ + 1]
            /\ UNCHANGED <<references, guards>>
  /\ UNCHANGED inner
  /\ UNCHANGED outsideRefCell

\* RefCell::borrow_mut, its guard kept in slot g
BorrowMut(g) ==
  /\ guards[g] = "none"
  /\ IF references = 0
       THEN /\ references' = MUTABLE_BORROW
            /\ guards' = [guards EXCEPT ![g] = "RefMut"]
            /\ UNCHANGED panics
       ELSE /\ panics.borrow_mut < MaxPanics
            /\ panics' = [panics EXCEPT !.borrow_mut = @ + 1]
            /\ UNCHANGED <<references, guards>>
  /\ UNCHANGED inner
  /\ UNCHANGED outsideRefCell

\* Drop for Ref
DropRef(g) ==
  /\ guards[g] = "Ref"
  /\ references' = references - 1
  /\ guards' = [guards EXCEPT ![g] = "none"]
  /\ UNCHANGED <<inner, panics>>
  /\ UNCHANGED outsideRefCell

\* Drop for RefMut
DropRefMut(g) ==
  /\ guards[g] = "RefMut"
  /\ references' = 0
  /\ guards' = [guards EXCEPT ![g] = "none"]
  /\ UNCHANGED <<inner, panics>>
  /\ UNCHANGED outsideRefCell

\* DerefMut for RefMut, used to write: *val += 1
DerefMutWrite(g) ==
  /\ guards[g] = "RefMut"
  /\ inner < MaxWrites
  /\ inner' = inner + 1
  /\ UNCHANGED <<references, guards, panics>>
  /\ UNCHANGED outsideRefCell

RefCellStep ==
  \/ \E g \in GuardSlots : Borrow(g)
  \/ \E g \in GuardSlots : BorrowMut(g)
  \/ \E g \in GuardSlots : DropRef(g)
  \/ \E g \in GuardSlots : DropRefMut(g)
  \/ \E g \in GuardSlots : DerefMutWrite(g)

\* The guards alive.
LiveRef    == {g \in GuardSlots : guards[g] = "Ref"}
LiveRefMut == {g \in GuardSlots : guards[g] = "RefMut"}

----------------------------------------------------------------------------
\* rc.rs: one value, the Rc made for it by Rc::new and the clones.  A handle
\* lives in a slot (the variable that holds it) until it is dropped.

RcSlots == 1..MaxRcs

\* What a step on the Rc leaves alone.
outsideRc == <<vars, mutexVars, refcellVars, splitVars, atomicsVars>>

\* No Rc made yet.
RcInit ==
  /\ ref_count = 0
  /\ allocated = FALSE
  /\ rcs = [r \in RcSlots |-> "none"]
  /\ dropped = 0

\* Rc::new(value), the handle kept in slot 1
RcNew ==
  /\ rcs[1] = "none"
  /\ allocated' = TRUE
  /\ ref_count' = 1
  /\ rcs' = [rcs EXCEPT ![1] = "live"]
  /\ UNCHANGED dropped
  /\ UNCHANGED outsideRc

\* Clone for Rc: rcs[n] = rcs[r].clone()
RcClone(r, n) ==
  /\ rcs[r] = "live"
  /\ rcs[n] = "none"
  /\ ref_count' = ref_count + 1
  /\ rcs' = [rcs EXCEPT ![n] = "live"]
  /\ UNCHANGED <<allocated, dropped>>
  /\ UNCHANGED outsideRc

\* Variant: the Box is released when the count read is 2 or less.
RcDropOffByOne(r) ==
  /\ rcs[r] = "live"
  /\ IF ref_count <= 2
       THEN /\ allocated' = FALSE
            /\ dropped' = dropped + 1
            /\ UNCHANGED ref_count
       ELSE /\ ref_count' = ref_count - 1
            /\ UNCHANGED <<allocated, dropped>>
  /\ rcs' = [rcs EXCEPT ![r] = "dropped"]
  /\ UNCHANGED outsideRc

\* Drop for Rc: at a count of 1 the Box is rebuilt and dropped, which drops
\* the value and releases the RcInner; otherwise the count goes down.
RcDrop(r) ==
  /\ rcs[r] = "live"
  /\ IF ref_count = 1
       THEN /\ allocated' = FALSE
            /\ dropped' = dropped + 1
            /\ UNCHANGED ref_count
       ELSE /\ ref_count' = ref_count - 1
            /\ UNCHANGED <<allocated, dropped>>
  /\ rcs' = [rcs EXCEPT ![r] = "dropped"]
  /\ UNCHANGED outsideRc

RcStep ==
  \/ RcNew
  \/ \E r, n \in RcSlots : RcClone(r, n)
  \/ \E r \in RcSlots : RcDrop(r)

\* The Rc handles alive.
LiveRc == {r \in RcSlots : rcs[r] = "live"}

----------------------------------------------------------------------------
\* lifetimes.rs: one StrSplit, made by StrSplit::new from a haystack and a
\* delimiter over Alphabet, and the calls of its next().  A &str is the
\* sequence of its characters; an Option<&str> is [some, s].

Alphabet == {"a", "b"}

\* The strings of at most n characters.
Strs(n) == UNION {[1..k -> Alphabet] : k \in 0..n}

None    == [some |-> FALSE, s |-> <<>>]
Some(s) == [some |-> TRUE, s |-> s]

\* What a step on the StrSplit leaves alone.
outsideSplit == <<vars, mutexVars, refcellVars, rcVars, atomicsVars>>

\* No StrSplit made yet.
SplitInit ==
  /\ haystack = <<>>
  /\ delimiter = <<>>
  /\ remainder = None
  /\ yielded = <<>>

\* The byte offsets at which pat occurs in s.
Occurs(s, pat) ==
  {i \in 0..(Len(s) - Len(pat)) : SubSeq(s, i + 1, i + Len(pat)) = pat}

\* str::find(pat): the offset of the first occurrence, -1 for None.
Find(s, pat) ==
  IF Occurs(s, pat) = {} THEN -1
  ELSE CHOOSE i \in Occurs(s, pat) : \A j \in Occurs(s, pat) : i <= j

\* StrSplit::new(haystack, delimiter)
StrSplitNew(h, d) ==
  /\ ~remainder.some
  /\ yielded = <<>>
  /\ haystack' = h
  /\ delimiter' = d
  /\ remainder' = Some(h)
  /\ UNCHANGED yielded
  /\ UNCHANGED outsideSplit

\* Variant: a remainder that is a plain &str, ended when it is empty, so that
\* nothing is yielded after a delimiter that ends the haystack.
StrSplitNextNoOption ==
  /\ remainder.some \/ yielded # <<>>
  /\ Len(yielded) < MaxNext
  /\ IF ~remainder.some
       THEN /\ yielded' = Append(yielded, None)
            /\ UNCHANGED remainder
       ELSE LET r   == remainder.s
                idx == Find(r, delimiter)
                rest == SubSeq(r, idx + Len(delimiter) + 1, Len(r))
            IN IF idx >= 0
                 THEN /\ remainder' = IF rest = <<>> THEN None ELSE Some(rest)
                      /\ yielded' = Append(yielded, Some(SubSeq(r, 1, idx)))
                 ELSE /\ remainder' = None
                      /\ yielded' = Append(yielded, Some(r))
  /\ UNCHANGED <<haystack, delimiter>>
  /\ UNCHANGED outsideSplit

\* Iterator for StrSplit: next()
StrSplitNext ==
  /\ remainder.some \/ yielded # <<>>
  /\ Len(yielded) < MaxNext
  /\ IF ~remainder.some
       THEN /\ yielded' = Append(yielded, None)
            /\ UNCHANGED remainder
       ELSE LET r   == remainder.s
                idx == Find(r, delimiter)
            IN IF idx >= 0
                 THEN /\ remainder' = Some(SubSeq(r, idx + Len(delimiter) + 1, Len(r)))
                      /\ yielded' = Append(yielded, Some(SubSeq(r, 1, idx)))
                 ELSE /\ remainder' = None
                      /\ yielded' = Append(yielded, Some(r))
  /\ UNCHANGED <<haystack, delimiter>>
  /\ UNCHANGED outsideSplit

SplitStep ==
  \/ \E h \in Strs(MaxHay), d \in Strs(MaxDelim) : StrSplitNew(h, d)
  \/ StrSplitNext

\* The pieces next() has yielded, in order: what collect() gathers.
Pieces ==
  LET somes == SelectSeq(yielded, LAMBDA y : y.some)
  IN [i \in 1..Len(somes) |-> somes[i].s]

\* next() has handed out the last piece.
Exhausted == ~remainder.some /\ yielded # <<>>

\* [&str]::join(sep)
RECURSIVE Join(_, _)
Join(ps, sep) ==
  IF ps = <<>> THEN <<>>
  ELSE IF Len(ps) = 1 THEN ps[1]
  ELSE ps[1] \o sep \o Join(Tail(ps), sep)

\* str::ends_with(pat)
EndsWith(s, pat) ==
  Len(pat) <= Len(s) /\ SubSeq(s, Len(s) - Len(pat) + 1, Len(s)) = pat

----------------------------------------------------------------------------
\* Every module as constructed, nothing having run.  Each specification
\* starts here and steps one module.
----------------------------------------------------------------------------
\* atomics.rs, lines 250-322: atomic_sequentially_consistent.  _tx stores
\* x = true and _ty stores y = true; t1 spins until it loads x as true, then
\* loads y and increments z if it got true; t2 does the same with y and x;
\* the main thread joins t1 and t2 and loads z.

outsideAtomics == <<vars, mutexVars, refcellVars, rcVars, splitVars>>

Storers == {"tx", "ty"}
Waiters == {"t1", "t2"}
AtomicThreads == Storers \cup Waiters \cup {"main"}

\* The flag a storer sets, the flag a waiter spins on, and the flag a waiter
\* loads in its `if`.
Stored(t) == IF t = "tx" THEN "x" ELSE "y"
Awaited(t) == IF t = "t1" THEN "x" ELSE "y"
Checked(t) == IF t = "t1" THEN "y" ELSE "x"

\* The orderings the function is written with (Release stores, Acquire
\* loads), and the ordering its documentation (lines 274-281) compares them
\* with.
WrittenOrdering == "ReleaseAcquire"
Orderings == {WrittenOrdering, "SeqCst"}

\* Variant: a load that may return the initial value under any ordering.
AtomicLoadStale(o, cur) == {cur, FALSE}

\* What a load of a flag may return when the flag holds cur.  Under SeqCst
\* all loads and stores of x and y are in one total order, so a load returns
\* the flag's latest value.  Under Release/Acquire a load returns some value
\* of the flag's modification order (false, then true) that no store which
\* happens-before the load has overwritten; in this program no store to a
\* flag happens-before a waiter's load of it (the storers are not joined and
\* release nothing else), and a waiter stops loading a flag once it has read
\* true, so the initial false is allowed as well as the latest value.
AtomicLoad(o, cur) == IF o = "SeqCst" THEN {cur} ELSE {cur, FALSE}

\* The order in which the main thread spawns the others: what it does after
\* spawning t.
SpawnAfter(t) ==
  IF t = "tx" THEN "ty" ELSE IF t = "ty" THEN "t1" ELSE IF t = "t1" THEN "t2"
  ELSE "join1"

\* The three atomics at their defaults and no thread spawned yet, with all
\* loads and stores of x and y under ordering o.
AtomicsInit(o) ==
  /\ atomics = [x |-> FALSE, y |-> FALSE, z |-> 0]
  /\ apc = [t \in AtomicThreads |-> IF t = "main" THEN "tx" ELSE "unspawned"]
  /\ saw = [t \in Waiters |-> {}]
  /\ zfinal = -1
  /\ ord = o

\* thread::spawn(..): the main thread, whose position names the thread it
\* spawns next, starts that thread.
Spawn ==
  /\ apc["main"] \in Storers \cup Waiters
  /\ apc' = [apc EXCEPT
               ![apc["main"]] = IF apc["main"] \in Storers THEN "store" ELSE "spin",
               !["main"] = SpawnAfter(@)]
  /\ UNCHANGED <<atomics, saw, zfinal, ord>>
  /\ UNCHANGED outsideAtomics

\* x.store(true, ..) in _tx, y.store(true, ..) in _ty
StoreFlag(t) ==
  /\ apc[t] = "store"
  /\ atomics' = [atomics EXCEPT ![Stored(t)] = TRUE]
  /\ apc' = [apc EXCEPT ![t] = "done"]
  /\ UNCHANGED <<saw, zfinal, ord>>
  /\ UNCHANGED outsideAtomics

\* while !x.load(..) { spin_loop() }: the load that returns true ends the
\* loop (a load that returns false changes nothing).
SpinUntil(t) ==
  /\ apc[t] = "spin"
  /\ \E b \in AtomicLoad(ord, atomics[Awaited(t)]) : b = TRUE
  /\ apc' = [apc EXCEPT ![t] = "if"]
  /\ UNCHANGED <<atomics, saw, zfinal, ord>>
  /\ UNCHANGED outsideAtomics

\* if y.load(..) { .. }: the thread ends if the load returned false.
IfLoad(t) ==
  /\ apc[t] = "if"
  /\ \E b \in AtomicLoad(ord, atomics[Checked(t)]) :
       /\ saw' = [saw EXCEPT ![t] = {b}]
       /\ apc' = [apc EXCEPT ![t] = IF b THEN "add" ELSE "done"]
  /\ UNCHANGED <<atomics, zfinal, ord>>
  /\ UNCHANGED outsideAtomics

\* z.fetch_add(1, Ordering::Relaxed)
FetchAdd(t) ==
  /\ apc[t] = "add"
  /\ atomics' = [atomics EXCEPT !.z = @ + 1]
  /\ apc' = [apc EXCEPT ![t] = "done"]
  /\ UNCHANGED <<saw, zfinal, ord>>
  /\ UNCHANGED outsideAtomics

\* t1.join().unwrap();
JoinT1 ==
  /\ apc["main"] = "join1"
  /\ apc["t1"] = "done"
  /\ apc' = [apc EXCEPT !["main"] = "join2"]
  /\ UNCHANGED <<atomics, saw, zfinal, ord>>
  /\ UNCHANGED outsideAtomics

\* t2.join().unwrap();
JoinT2 ==
  /\ apc["main"] = "join2"
  /\ apc["t2"] = "done"
  /\ apc' = [apc EXCEPT !["main"] = "load"]
  /\ UNCHANGED <<atomics, saw, zfinal, ord>>
  /\ UNCHANGED outsideAtomics

\* let _z = z.load(Ordering::SeqCst); both increments happen-before it
\* through the joins.
LoadZ ==
  /\ apc["main"] = "load"
  /\ zfinal' = atomics.z
  /\ apc' = [apc EXCEPT !["main"] = "done"]
  /\ UNCHANGED <<atomics, saw, ord>>
  /\ UNCHANGED outsideAtomics

AtomicsStep ==
  \/ Spawn
  \/ \E t \in Storers : StoreFlag(t)
  \/ \E t \in Waiters : SpinUntil(t)
  \/ \E t \in Waiters : IfLoad(t)
  \/ \E t \in Waiters : FetchAdd(t)
  \/ JoinT1
  \/ JoinT2
  \/ LoadZ

----------------------------------------------------------------------------
Fresh ==
  /\ Init /\ MutexInit /\ RefCellInit /\ RcInit /\ SplitInit
  /\ AtomicsInit(WrittenOrdering)

\* The function run as written and with SeqCst in place of its orderings.
AtomicsFresh ==
  /\ Init /\ MutexInit /\ RefCellInit /\ RcInit /\ SplitInit
  /\ \E o \in Orderings : AtomicsInit(o)

AtomicsSpec == AtomicsFresh /\ [][AtomicsStep]_allVars

MutexSpec == Fresh /\ [][MutexStep]_allVars

----------------------------------------------------------------------------
\* atomics.rs, lines 51-88: with_lock as first written and left in a comment,
\* which takes the lock by a load and a separate store:
\*     while self.lock.load(Relaxed) != UNLOCKED { spin_loop() }
\*     self.lock.store(LOCKED, Relaxed);
\*     let ret = f(unsafe { &mut *self.v.get() });
\*     self.lock.store(UNLOCKED, Relaxed);
\* driven by the same threads, each calling with_lock(|v| *v += 1) MaxIters
\* times.  The closure's steps are ClosureRead and ClosureWrite.

\* Mutex::new(0), and the threads spawned, each before its first load.
LoadStoreInit ==
  /\ lock = UNLOCKED
  /\ v = 0
  /\ tpc = [t \in Threads |-> "load"]
  /\ tdone = [t \in Threads |-> 0]
  /\ tval = [t \in Threads |-> 0]
  /\ mpc = "join"
  /\ ret = -1
  /\ got = -1

\* The load that ends the spin loop: it finds UNLOCKED (a load that finds
\* LOCKED changes nothing).
SpinLoad(t) ==
  /\ tpc[t] = "load"
  /\ lock = UNLOCKED
  /\ tpc' = [tpc EXCEPT ![t] = "lock"]
  /\ UNCHANGED <<lock, v, tdone, tval>>
  /\ UNCHANGED mainVars
  /\ UNCHANGED outsideMutex

\* Variant: the store made only if the flag is still UNLOCKED.
StoreLockedIfUnlocked(t) ==
  /\ tpc[t] = "lock"
  /\ lock = UNLOCKED
  /\ lock' = LOCKED
  /\ tpc' = [tpc EXCEPT ![t] = "read"]
  /\ UNCHANGED <<v, tdone, tval>>
  /\ UNCHANGED mainVars
  /\ UNCHANGED outsideMutex

\* self.lock.store(LOCKED, Relaxed);
StoreLocked(t) ==
  /\ tpc[t] = "lock"
  /\ lock' = LOCKED
  /\ tpc' = [tpc EXCEPT ![t] = "read"]
  /\ UNCHANGED <<v, tdone, tval>>
  /\ UNCHANGED mainVars
  /\ UNCHANGED outsideMutex

\* self.lock.store(UNLOCKED, Relaxed); the call returns, and the thread's
\* loop goes on to its next call or ends.
StoreUnlocked(t) ==
  /\ tpc[t] = "store"
  /\ lock' = UNLOCKED
  /\ tdone' = [tdone EXCEPT ![t] = @ + 1]
  /\ tpc' = [tpc EXCEPT ![t] = IF tdone[t] + 1 < MaxIters THEN "load" ELSE "done"]
  /\ UNCHANGED <<v, tval>>
  /\ UNCHANGED mainVars
  /\ UNCHANGED outsideMutex

LoadStoreStep ==
  \/ \E t \in Threads : SpinLoad(t)
  \/ \E t \in Threads : StoreLocked(t)
  \/ \E t \in Threads : ClosureRead(t)
  \/ \E t \in Threads : ClosureWrite(t)
  \/ \E t \in Threads : StoreUnlocked(t)

LoadStoreFresh ==
  /\ Init /\ LoadStoreInit /\ RefCellInit /\ RcInit /\ SplitInit
  /\ AtomicsInit(WrittenOrdering)

LoadStoreSpec == LoadStoreFresh /\ [][LoadStoreStep]_allVars

RefCellSpec == Fresh /\ [][RefCellStep]_allVars

RcSpec == Fresh /\ [][RcStep]_allVars

SplitSpec == Fresh /\ [][SplitStep]_allVars

----------------------------------------------------------------------------
\* A step of a Sender's thread or of a recv call.
\* The clone calls made so far, those in progress included.
CloneCalls ==
  Cardinality({h \in Handles : pc[h] # "none"}) - 1
    + Cardinality({h \in Handles : pc[h] \in {"c_inc", "c_new"}})

ChannelStep ==
  \/ \E h \in Handles : SendLock(h)
  \/ \E h \in Handles : SendPush(h)
  \/ \E h \in Handles : SendNotify(h)
  \/ \E h \in Handles : CloneCalls < MaxClones /\ CloneLock(h)
  \/ \E h \in Handles : CloneInc(h)
  \/ \E h \in Handles : CloneNew(h)
  \/ \E h \in Handles : DropLock(h)
  \/ \E h \in Handles : DropDec(h)
  \/ \E h \in Handles : DropNotify(h)
  \/ RecvFast
  \/ RecvSlow
  \/ RecvLock
  \/ RecvLoop
  \/ RecvWake
  \/ SpuriousWake

\* The channel while its Receiver is kept.
Spec == Fresh /\ [][ChannelStep]_allVars

\* The channel with a Receiver that may be dropped between two recv calls.
Next ==
  \/ ChannelStep
  \/ RecvDrop

SpecRxDrop == Fresh /\ [][Next]_allVars

\* The steps inside a call: what a thread that has entered send, clone, drop
\* or recv does next.  Starting a call, dropping the Receiver and a spurious
\* wake-up are not among them: nothing obliges them to happen.
SenderCallStep(h) ==
  \/ SendPush(h) \/ SendNotify(h)
  \/ CloneInc(h) \/ CloneNew(h)
  \/ DropDec(h) \/ DropNotify(h)

RecvCallStep == RecvLock \/ RecvLoop \/ RecvWake

\* Every thread that is inside a call and can run does run.
Fairness ==
  /\ \A h \in Handles : WF_vars(SenderCallStep(h))
  /\ WF_vars(RecvCallStep)

\* The channel while its Receiver is kept (recv borrows the Receiver mutably,
\* so it cannot be dropped during a call), with at most MaxFairSends send
\* calls and MaxFairRecvs recv calls, under fair scheduling.
FairStep ==
  \/ \E h \in Handles : SendCalls < MaxFairSends /\ SendLock(h)
  \/ \E h \in Handles : SendPush(h)
  \/ \E h \in Handles : SendNotify(h)
  \/ \E h \in Handles : CloneCalls < MaxClones /\ CloneLock(h)
  \/ \E h \in Handles : CloneInc(h)
  \/ \E h \in Handles : CloneNew(h)
  \/ \E h \in Handles : DropLock(h)
  \/ \E h \in Handles : DropDec(h)
  \/ \E h \in Handles : DropNotify(h)
  \/ Len(results) < MaxFairRecvs /\ RecvFast
  \/ Len(results) < MaxFairRecvs /\ RecvSlow
  \/ RecvLock
  \/ RecvLoop
  \/ RecvWake
  \/ SpuriousWake

FairSpec == Fresh /\ [][FairStep]_allVars /\ Fairness

----------------------------------------------------------------------------
\* The variant of send the specification discusses, which signals the
\* condition before it releases the lock:
\*     let mut inner = self.inner.mu.lock().unwrap();
\*     inner.queue.push_back(val);
\*     self.inner.avail.notify_one();
\*     drop(inner);
\* Its first step is SendLock; recv, clone and drop are those of the channel.

\* inner.queue.push_back(val); the guard is kept.
SendPushHeld(h) ==
  /\ pc[h] = "s_push"
  /\ queue' = PushBack(queue, SendVal(h))
  /\ sent' = Append(sent, SendVal(h))
  /\ pc' = [pc EXCEPT ![h] = "s_notify_held"]
  /\ UNCHANGED <<senders, mu, avail, strong, dsenders, nsend, rxVars>>
  /\ refQueue' = PushBack(refQueue, SendVal(h))
  /\ UNCHANGED refResults
  /\ UNCHANGED signalled
  /\ UNCHANGED elsewhere

\* self.inner.avail.notify_one(); with the guard still held.
SendNotifyHeld(h) ==
  /\ pc[h] = "s_notify_held"
  /\ avail' \in NotifyOne(avail)
  /\ pc' = [pc EXCEPT ![h] = "s_unlock"]
  /\ UNCHANGED <<queue, senders, mu, strong, dsenders, nsend, sent, rxVars>>
  /\ UNCHANGED refVars
  /\ signalled' = [signalled EXCEPT !.send[h] = @ + 1]
  /\ UNCHANGED elsewhere

\* drop(inner);
SendUnlock(h) ==
  /\ pc[h] = "s_unlock"
  /\ mu' = mu \ {h}
  /\ pc' = [pc EXCEPT ![h] = "idle"]
  /\ UNCHANGED <<queue, senders, avail, strong, dsenders, nsend, sent, rxVars>>
  /\ UNCHANGED refVars
  /\ UNCHANGED signalled
  /\ UNCHANGED elsewhere

\* The steps inside a call of a Sender, send being the variant.
HeldSenderCallStep(h) ==
  \/ SendPushHeld(h) \/ SendNotifyHeld(h) \/ SendUnlock(h)
  \/ CloneInc(h) \/ CloneNew(h)
  \/ DropDec(h) \/ DropNotify(h)

HeldFairness ==
  /\ \A h \in Handles : WF_vars(HeldSenderCallStep(h))
  /\ WF_vars(RecvCallStep)

HeldNotifyStep ==
  \/ \E h \in Handles : SendCalls < MaxFairSends /\ SendLock(h)
  \/ \E h \in Handles : SendPushHeld(h)
  \/ \E h \in Handles : SendNotifyHeld(h)
  \/ \E h \in Handles : SendUnlock(h)
  \/ \E h \in Handles : CloneCalls < MaxClones /\ CloneLock(h)
  \/ \E h \in Handles : CloneInc(h)
  \/ \E h \in Handles : CloneNew(h)
  \/ \E h \in Handles : DropLock(h)
  \/ \E h \in Handles : DropDec(h)
  \/ \E h \in Handles : DropNotify(h)
  \/ Len(results) < MaxFairRecvs /\ RecvFast
  \/ Len(results) < MaxFairRecvs /\ RecvSlow
  \/ RecvLock
  \/ RecvLoop
  \/ RecvWake
  \/ SpuriousWake

HeldNotifySpec == Fresh /\ [][HeldNotifyStep]_allVars /\ HeldFairness

----------------------------------------------------------------------------
\* The Senders of a channel cloned and dropped, by as many threads as there
\* are handles, while the Receiver calls recv; nothing is sent.
CloneDropStep ==
  \/ \E h \in Handles : CloneLock(h)
  \/ \E h \in Handles : CloneInc(h)
  \/ \E h \in Handles : CloneNew(h)
  \/ \E h \in Handles : DropLock(h)
  \/ \E h \in Handles : DropDec(h)
  \/ \E h \in Handles : DropNotify(h)
  \/ RecvSlow
  \/ RecvLock
  \/ RecvLoop
  \/ RecvWake
  \/ SpuriousWake

CloneDropSpec == Fresh /\ [][CloneDropStep]_allVars

----------------------------------------------------------------------------
\* Vocabulary of the properties.

Last(sq) == sq[Len(sq)]

IsPrefix(a, b) == Len(a) <= Len(b) /\ SubSeq(b, 1, Len(a)) = a

\* The values of the Ok results, in the order recv returned them.
Received ==
  LET oks == SelectSeq(results, LAMBDA r : r.ok)
  IN [i \in 1..Len(oks) |-> oks[i].val]

Disconnected == \E i \in 1..Len(results) : results[i] = RecvError

\* A Sender handle that exists and whose drop has not begun.
Live(h) == pc[h] \in {"idle", "s_push", "s_notify", "c_inc", "c_new"}

InRecv == rpc \in {"r_lock", "r_loop", "r_wait"}

Parked == RxThread \in avail

----------------------------------------------------------------------------
\* C1  FIFO per sender: while only one Sender handle h has sent, the i-th recv
\* call returns Ok of the i-th value sent on h, for every i up to the number
\* of send calls made on h, whatever the interleaving of sends and recvs.
C1_FifoSingleSender ==
  \A h \in Handles :
    (\A g \in Handles \ {h} : nsend[g] = 0) =>
      /\ Len(Received) <= nsend[h]
      /\ \A i \in 1..Len(results) : i <= nsend[h] => results[i] = Ok(<<h, i>>)

\* Two values sent on the one handle, both received, the second through the
\* private buffer or the queue.
C1_Witness ==
  /\ nsend[1] >= 2
  /\ \A g \in Handles \ {1} : nsend[g] = 0
  /\ Len(results) >= 2
  /\ results[2] = Ok(<<1, 2>>)

\* C2  Multi-sender exactly-once delivery: the values received are, in order,
\* the first values pushed (so the cross-sender order is the order in which
\* the sends took the lock), no value is received twice, the values of one
\* Sender appear in its send order, and when Disconnected is first returned
\* every value of every send call has been received: exactly as many Ok
\* results precede it as send calls were made.
C2_ExactlyOnce ==
  /\ IsPrefix(Received, sent)
  /\ \A i, j \in 1..Len(Received) :
       /\ i # j => Received[i] # Received[j]
       /\ (i < j /\ Received[i][1] = Received[j][1]) => Received[i][2] < Received[j][2]
  /\ \A i \in 1..Len(results) :
       results[i] = RecvError =>
         /\ i > SendCalls
         /\ \A j \in 1..SendCalls : results[j].ok
         /\ \A h \in Handles : \A k \in 1..nsend[h] :
              \E j \in 1..SendCalls : results[j] = Ok(<<h, k>>)

\* Two Senders have each sent, both are dropped, and recv has returned both
\* values and then Disconnected.
C2_Witness ==
  /\ nsend[1] >= 1
  /\ nsend[2] >= 1
  /\ pc[1] = "dead"
  /\ pc[2] = "dead"
  /\ Len(results) = SendCalls + 1
  /\ Last(results) = RecvError

\* C3  No hang on an already-closed channel: a recv call that starts with the
\* sender count 0 and nothing pending never enters Condvar::wait, finds the
\* mutex free, takes the Closed arm, and returns Err(RecvError).
C3_ClosedNoWait ==
  rcall.kind = "closed" =>
    /\ ~rcall.waited
    /\ rpc # "r_wait"
    /\ ~Parked
    /\ rpc = "r_lock" => mu = {}
    /\ rpc = "r_loop" => MatchArm(queue, senders) = "Closed"
    /\ rpc \in {"idle", "dropped"} => (results # <<>> /\ Last(results) = RecvError)

\* The lone Sender was dropped, its notification went to nobody, and the
\* first recv call then returned Disconnected.
C3_Witness ==
  /\ rcall.kind = "closed"
  /\ rpc = "idle"
  /\ results = <<RecvError>>
  /\ pc[1] = "dead"
  /\ sent = <<>>

\* C4  Disconnected only when nothing is pending and no Sender remains: every
\* step in which recv returns Err(RecvError) starts and ends with the shared
\* queue empty, the private buffer empty, the sender count 0 and no live
\* Sender handle.
C4_DisconnectedOnlyWhenClosed ==
  [][ (results' # results /\ Last(results') = RecvError) =>
        /\ queue = <<>> /\ buf = <<>> /\ senders = 0
        /\ queue' = <<>> /\ buf' = <<>> /\ senders' = 0
        /\ \A h \in Handles : ~Live(h) /\ ~Live(h)'
        /\ \A h \in Handles : pc[h] # "d_dec" ]_vars

\* recv has returned Disconnected after two handles existed and a value was
\* delivered.
C4_Witness ==
  /\ results # <<>>
  /\ Last(results) = RecvError
  /\ Len(Received) >= 1
  /\ pc[2] = "dead"

\* C5  Wake on disconnection: under fair scheduling, a recv parked on an empty
\* queue when the sender count has reached 0 eventually returns
\* Err(RecvError), and a recv parked with the sender count at 0 does not stay
\* parked.
C5_WakeOnDisconnect ==
  /\ (Parked /\ senders = 0 /\ queue = <<>>)
       ~> (rpc = "idle" /\ results # <<>> /\ Last(results) = RecvError)
  /\ (Parked /\ senders = 0) ~> ~Parked

\* recv is parked, nothing was ever sent, and the last Sender's drop has taken
\* the count to 0 without having notified yet.
C5_Witness ==
  /\ Parked
  /\ senders = 0
  /\ sent = <<>>
  /\ \E h \in Handles : pc[h] = "d_notify"

\* C6  Blocking/wake correctness: a recv call that starts with buffer and queue
\* empty and a Sender alive returns only in a step that finds a value pushed
\* since the call began (then Ok of the first such value) or the sender count
\* at 0 (then Err); and under fair scheduling, once a value has been pushed
\* since the call began, the call eventually returns Ok of the first such
\* value.
C6_BlockUntilSend ==
  /\ [][ (results' # results /\ rcall'.kind = "open") =>
           IF Last(results').ok
             THEN /\ Len(sent) > rcall'.sent
                  /\ Last(results') = Ok(sent[rcall'.sent + 1])
             ELSE senders = 0 /\ Len(sent) = rcall'.sent ]_vars
  /\ (InRecv /\ rcall.kind = "open" /\ Len(sent) > rcall.sent)
       ~> (/\ rpc = "idle" /\ rcall.kind = "open" /\ results # <<>>
           /\ Len(sent) > rcall.sent /\ Last(results) = Ok(sent[rcall.sent + 1]))

\* recv parked on an open, empty channel and, since then, a send has pushed a
\* value and released the lock, its notify_one still to come.
C6_Witness ==
  /\ Parked
  /\ rcall.kind = "open"
  /\ Len(sent) > rcall.sent
  /\ queue # <<>>
  /\ \E h \in Handles : pc[h] = "s_notify"

\* C7  send does not depend on the Receiver: once the Receiver is dropped, no
\* step of send is ever blocked (the lock can be taken whenever it is free,
\* whoever holds it can release it, the push and the notify can always be
\* taken, and the Receiver neither holds the lock nor is parked); each push
\* appends its value at the back of the shared queue; and while the Shared
\* block is not released the queue only grows, so every value pushed since
\* the drop is still in it, and no recv result is added.
C7_SendAfterRxDrop ==
  /\ [](rpc = "dropped" =>
          /\ RxThread \notin mu
          /\ ~Parked
          /\ \A h \in Handles :
               /\ pc[h] = "s_push" => ENABLED SendPush(h)
               /\ pc[h] = "s_notify" => ENABLED SendNotify(h)
               /\ h \in mu => ENABLED (SendPush(h) \/ CloneInc(h) \/ DropDec(h))
               /\ (pc[h] = "idle" /\ mu = {} /\ SendCalls < MaxSends) => ENABLED SendLock(h)
          /\ strong > 0 =>
               LET leaked == SubSeq(sent, rxGoneAt + 1, Len(sent))
               IN /\ Len(queue) >= Len(leaked)
                  /\ SubSeq(queue, Len(queue) - Len(leaked) + 1, Len(queue)) = leaked)
  /\ [][ rpc = "dropped" =>
           /\ results' = results
           /\ strong' > 0 => IsPrefix(queue, queue')
           /\ \A h \in Handles :
                (pc[h] = "s_push" /\ pc'[h] # "s_push") =>
                  (pc'[h] = "s_notify" /\ queue' = Append(queue, SendVal(h))) ]_vars

\* The Receiver was dropped before anything was sent; the one Sender has
\* since completed two sends, and both values sit in the shared queue.
C7_Witness ==
  /\ rpc = "dropped"
  /\ rxGoneAt = 0
  /\ results = <<>>
  /\ pc[1] = "idle"
  /\ sent = <<<<1, 1>>, <<1, 2>>>>
  /\ queue = sent

\* C8  Buffer-swap transparency: the results recv has returned are those of
\* the reference channel, whose recv always runs the loop on the shared queue
\* and never swaps, given the same pushes and the same sender count at each
\* return; the reference never has to wait where the implementation returned;
\* and the reference's queue is the private buffer followed by the shared
\* queue.
C8_SwapTransparent ==
  /\ results = refResults
  /\ \A i \in 1..Len(refResults) : refResults[i] # WouldWait
  /\ rpc # "dropped" => refQueue = buf \o queue

\* Two Senders have each pushed a value before the first recv call took the
\* lock; that call swapped the second value into the private buffer, and the
\* second call has just returned it on the fast path.
C8_Witness ==
  /\ Len(results) = 2
  /\ rcall.fast
  /\ results[1].ok
  /\ results[2].ok
  /\ results[1].val[1] # results[2].val[1]

\* C9  Disconnection is permanent: after an Err(RecvError) every later result
\* is Err(RecvError); and once one has been returned, no recv call parks or
\* finds the lock held by another thread, the private buffer stays empty, and
\* the shared queue and the sender count never change.
C9_DisconnectPermanent ==
  /\ [](/\ \A i, j \in 1..Len(results) :
             (i < j /\ results[i] = RecvError) => results[j] = RecvError
        /\ Disconnected =>
             /\ ~Parked
             /\ rpc # "r_wait"
             /\ mu \subseteq {RxThread}
             /\ buf = <<>>)
  /\ [][ Disconnected => (queue' = queue /\ senders' = senders) ]_vars

\* Two Disconnected results in a row, after a value was received.
C9_Witness ==
  /\ Len(results) = 3
  /\ results[1].ok
  /\ results[2] = RecvError
  /\ results[3] = RecvError

\* C10  Sender-count invariant: the count is never negative and is positive
\* whenever a drop is about to decrement it; with no clone and no drop in
\* progress it is the number of Sender handles whose drop has not begun; and
\* once 0 it stays 0.
C10_SenderCount ==
  /\ [](/\ senders >= 0
        /\ \A h \in Handles : pc[h] = "d_dec" => senders > 0
        /\ (\A h \in Handles : pc[h] \notin {"c_inc", "c_new", "d_dec", "d_notify"}) =>
             senders = Cardinality({h \in Handles : Live(h)}))
  /\ [][ senders = 0 => senders' = 0 ]_vars

\* The count went 1, 2, 1, 0: a clone was made and both handles were dropped.
C10_Witness ==
  /\ senders = 0
  /\ pc[1] = "dead"
  /\ pc[2] = "dead"

\* The Sender handles that exist: made by channel() or clone, not yet dropped.
Existing == {h \in Handles : pc[h] \notin {"none", "dead"}}

\* No operation of the channel has begun since channel() returned: the one
\* Sender of channel() is idle and no other handle has been made (a handle
\* made by a clone is never "none" again), nothing has been sent, signalled
\* or received, and the Receiver has neither called recv nor been dropped.
Untouched ==
  /\ \A h \in Handles : pc[h] = (IF h = 1 THEN "idle" ELSE "none") /\ nsend[h] = 0
  /\ \A h \in Handles : signalled.send[h] = 0 /\ signalled.drop[h] = 0
  /\ rpc = "idle"
  /\ rcall.kind = "none"
  /\ sent = <<>>
  /\ results = <<>>

\* C11  Channel construction: the state channel() returns has exactly one
\* Sender and the Receiver sharing one Shared block (strong count 2), the
\* sender count 1, the shared queue empty, the private buffer empty, the lock
\* free and no thread waiting on the condition; and from then on the handles
\* that exist, with the Receiver, are exactly the owners of that one block.
C11_Construction ==
  /\ (/\ Untouched
      /\ Existing = {1}
      /\ senders = 1
      /\ queue = <<>>
      /\ buf = <<>>
      /\ mu = {}
      /\ avail = {}
      /\ strong = 2)
  /\ [](strong = Cardinality(Existing) + 1)
  /\ [](Untouched =>
          senders = 1 /\ queue = <<>> /\ buf = <<>> /\ mu = {} /\ avail = {})

\* The channel as channel() returned it, nothing having been called.
C11_Witness ==
  /\ Untouched
  /\ Existing = {1}
  /\ senders = 1
  /\ strong = 2
  /\ queue = <<>>
  /\ buf = <<>>

\* C12  Spin-lock mutual exclusion: at most one thread is inside the closure
\* of with_lock at a time, whatever compare_exchange_weak does; so no update
\* is lost: the value is always the number of increments made, and when the
\* MaxThreads threads have each made their MaxIters calls it is exactly
\* MaxThreads * MaxIters.
C12_SpinLockExclusion ==
  /\ Cardinality(InClosure) <= 1
  /\ \A t \in Threads : tpc[t] = "write" => tval[t] = v
  /\ v = SumOver(tdone, Threads) + Cardinality({t \in Threads : tpc[t] = "store"})
  /\ (\A t \in Threads : tpc[t] = "done") => v = MaxThreads * MaxIters

\* Every thread has made all its calls and the value is their number.
C12_Witness ==
  /\ \A t \in Threads : tpc[t] = "done" /\ tdone[t] = MaxIters
  /\ v = MaxThreads * MaxIters
  /\ lock = UNLOCKED

\* C13  RefCell rejects conflicting borrows: no borrow_mut succeeds while a
\* Ref or a RefMut is alive and no borrow succeeds while a RefMut is alive,
\* so a live RefMut is the only live guard; the counter is MUTABLE_BORROW
\* while a RefMut is alive and the number of live Refs otherwise; and a call
\* that panics changes neither the counter, nor the guards, nor the value.
C13_NoConflictingBorrow ==
  /\ [](/\ LiveRefMut # {} => (Cardinality(LiveRefMut) = 1 /\ LiveRef = {})
        /\ references = IF LiveRefMut # {} THEN MUTABLE_BORROW ELSE Cardinality(LiveRef))
  /\ [][ /\ (LiveRef # {} \/ LiveRefMut # {}) => LiveRefMut' \subseteq LiveRefMut
         /\ LiveRefMut # {} => LiveRef' = {}
         /\ panics' # panics =>
              (references' = references /\ guards' = guards /\ inner' = inner)
         /\ panics'.borrow_mut # panics.borrow_mut => (LiveRef # {} \/ LiveRefMut # {})
         /\ panics'.borrow # panics.borrow => LiveRefMut # {}
         /\ \A g \in GuardSlots :
              /\ (BorrowMut(g) /\ (LiveRef # {} \/ LiveRefMut # {})) =>
                   panics'.borrow_mut = panics.borrow_mut + 1
              /\ (Borrow(g) /\ LiveRefMut # {}) => panics'.borrow = panics.borrow + 1
       ]_allVars

\* Two Refs are alive; a borrow_mut made meanwhile has panicked, and so has,
\* earlier, a borrow made while a RefMut was alive and had written.
C13_Witness ==
  /\ Cardinality(LiveRef) = 2
  /\ references = 2
  /\ panics.borrow_mut = 1
  /\ panics.borrow = 1
  /\ inner = 1

\* C14  Rc releases its value exactly once, exactly when the last handle is
\* dropped: while a handle is alive the value has not been dropped and the
\* RcInner is allocated, with ref_count the number of live handles; the value
\* is dropped only by the drop of the one remaining handle; and once no
\* handle is left it has been dropped exactly once.
C14_RcDropsOnce ==
  /\ [](/\ LiveRc # {} => (dropped = 0 /\ allocated /\ ref_count = Cardinality(LiveRc))
        /\ dropped <= 1
        /\ (rcs[1] # "none" /\ LiveRc = {}) => (dropped = 1 /\ ~allocated))
  /\ [][ dropped' # dropped =>
           /\ Cardinality(LiveRc) = 1
           /\ LiveRc' = {}
           /\ dropped = 0 /\ dropped' = 1 ]_allVars

\* As in test_rc_drop_deallocate: three handles, the clones dropped first,
\* the value dropped by the drop of the first.
C14_Witness ==
  /\ Cardinality({r \in RcSlots : rcs[r] = "dropped"}) = 3
  /\ LiveRc = {}
  /\ dropped = 1
  /\ ~allocated

\* A delimiter two of whose occurrences can overlap: a proper prefix of it is
\* also its suffix.
SelfOverlapping(d) ==
  \E k \in 1..(Len(d) - 1) : SubSeq(d, 1, k) = SubSeq(d, Len(d) - k + 1, Len(d))

\* C15 as stated: the pieces joined with the delimiter are the haystack, and
\* the last piece is empty whenever the haystack ends with the delimiter.
C15_FinalEmptyWheneverSuffix ==
  (Exhausted /\ delimiter # <<>>) =>
    /\ Join(Pieces, delimiter) = haystack
    /\ EndsWith(haystack, delimiter) => Last(Pieces) = <<>>

\* C15  StrSplit yields the pieces between the successive occurrences of the
\* delimiter that a left-to-right scan finds: what has been yielded, then the
\* remainder, joined with the delimiter are the haystack; every piece that a
\* delimiter followed holds no occurrence of the delimiter before that one,
\* and the last piece holds none; a delimiter found at the very end of the
\* remainder leaves Some("") behind, which the next call yields as the final
\* empty piece; so the last piece is empty when the haystack ends with an
\* occurrence of the delimiter that does not overlap the occurrence found
\* before it, which is always the case for a delimiter that cannot overlap
\* itself; and for a non-empty delimiter the pieces joined with the delimiter
\* are the haystack.
C15_SplitPieces ==
  /\ [](/\ remainder.some =>
             Join(Append(Pieces, remainder.s), delimiter) = haystack
        /\ \A i \in 1..Len(Pieces) :
             IF i < Len(Pieces) \/ remainder.some
               THEN Occurs(Pieces[i] \o delimiter, delimiter) = {Len(Pieces[i])}
               ELSE Occurs(Pieces[i], delimiter) = {}
        /\ (Exhausted /\ delimiter # <<>>) =>
             /\ Join(Pieces, delimiter) = haystack
             /\ (EndsWith(haystack, delimiter) /\ ~SelfOverlapping(delimiter)) =>
                  Last(Pieces) = <<>>
             /\ (EndsWith(haystack, delimiter) /\ Last(Pieces) # <<>>) =>
                  (Len(Pieces) >= 2 /\ Len(Last(Pieces)) < Len(delimiter)))
  /\ [][ (yielded' # yielded /\ remainder = Some(<<>>) /\ delimiter # <<>>) =>
           (Last(yielded') = Some(<<>>) /\ remainder' = None) ]_allVars

\* As in test_split_tail: a haystack that ends with the delimiter, split to
\* the end, the final piece empty.
C15_Witness ==
  /\ Exhausted
  /\ haystack = <<"a", "b", "a">>
  /\ delimiter = <<"a">>
  /\ Pieces = << <<>>, <<"b">>, <<>> >>

\* The thread that takes the step: the Sender thread whose position changes,
\* or the Receiver's thread when a recv call moves or returns.
Acts(t) ==
  IF t = RxThread THEN rpc' # rpc \/ results' # results
  ELSE pc[t] \in {"idle", "s_push", "s_notify", "c_inc", "c_new", "d_dec", "d_notify"}
       /\ pc'[t] # pc[t]

\* C16  Lock discipline: at most one thread holds the lock; a thread holds it
\* exactly while it stands at a statement that reads or writes the shared
\* queue or the sender count (send's push, clone's increment, drop's
\* decrement, recv's match in the loop); a thread in the condition wait does
\* not hold it; and every step that changes the shared queue or the sender
\* count is taken by the one thread that holds the lock.
C16_LockDiscipline ==
  /\ [](/\ Cardinality(mu) <= 1
        /\ mu \subseteq Handles \cup {RxThread}
        /\ \A h \in Handles : h \in mu <=> pc[h] \in {"s_push", "c_inc", "d_dec"}
        /\ RxThread \in mu <=> rpc = "r_loop"
        /\ rpc = "r_wait" => RxThread \notin mu
        /\ Parked => (rpc = "r_wait" /\ RxThread \notin mu))
  /\ [][ (queue' # queue \/ senders' # senders) =>
           \E t \in mu : /\ mu = {t}
                         /\ Acts(t)
                         /\ \A u \in (Handles \cup {RxThread}) \ {t} : ~Acts(u) ]_allVars

\* The Receiver is parked in the wait, without the lock, while a Sender holds
\* the lock on its way to push and another has pushed and let go of it.
C16_Witness ==
  /\ Parked
  /\ \E h \in Handles : pc[h] = "s_push" /\ mu = {h}
  /\ \E h \in Handles : pc[h] = "s_notify"
  /\ queue # <<>>

\* C17 as stated: every notify_one of send and of the last drop, and every
\* entry into the wait, is made by a thread that holds the lock.
C17_SignalUnderLock ==
  [][ /\ \A h \in Handles :
           (signalled'.send[h] # signalled.send[h] \/ signalled'.drop[h] # signalled.drop[h])
             => h \in mu
      /\ (rpc # "r_wait" /\ rpc' = "r_wait") => RxThread \in mu ]_allVars

\* C17  The condition is waited on with the lock held and signalled without
\* it: recv enters the wait holding the lock, and the same step releases the
\* lock and parks the thread; the wait returns with the lock reacquired; and
\* every notify_one of send, and of the drop that took the count to 0, is
\* issued after the thread has released the lock it had taken for its update,
\* while it holds no lock.
C17_WaitUnderLockSignalAfter ==
  [][ /\ (rpc # "r_wait" /\ rpc' = "r_wait") =>
           (mu = {RxThread} /\ mu' = {} /\ ~Parked /\ Parked')
      /\ (rpc = "r_wait" /\ rpc' # "r_wait") =>
           (~Parked /\ mu = {} /\ mu' = {RxThread} /\ rpc' = "r_loop")
      /\ \A h \in Handles :
           /\ signalled'.send[h] # signalled.send[h] =>
                /\ h \notin mu /\ mu' = mu
                /\ pc[h] = "s_notify"
                /\ \E i \in 1..Len(sent) : sent[i] = SendVal(h)
           /\ signalled'.drop[h] # signalled.drop[h] =>
                /\ h \notin mu /\ mu' = mu
                /\ pc[h] = "d_notify" /\ dsenders[h] = 0 /\ senders = 0 ]_allVars

\* recv has entered the wait, a send has since pushed, released the lock and
\* issued its notify_one, and the woken Receiver has yet to take the lock.
C17_Witness ==
  /\ rpc = "r_wait"
  /\ ~Parked
  /\ rcall.waited
  /\ mu = {}
  /\ queue # <<>>
  /\ \E h \in Handles : signalled.send[h] = 1 /\ pc[h] = "idle"

\* The values handle h has had pushed by its send calls so far.
Pushed(h) == {i \in 1..Len(sent) : sent[i][1] = h}

\* C18  send's step order.  A send call takes the lock, then appends its
\* value at the back of the shared queue and releases the lock in one step,
\* then signals the condition, and then returns; it signals once per call
\* (the signals of a handle number its completed calls) and never before its
\* value has been pushed.
C18_SendStepOrder ==
  /\ [](\A h \in Handles :
          /\ pc[h] = "s_push" =>
               /\ h \in mu
               /\ signalled.send[h] = nsend[h] - 1
               /\ Cardinality(Pushed(h)) = nsend[h] - 1
          /\ pc[h] = "s_notify" =>
               /\ h \notin mu
               /\ signalled.send[h] = nsend[h] - 1
               /\ Cardinality(Pushed(h)) = nsend[h]
          /\ pc[h] \notin {"s_push", "s_notify"} =>
               /\ signalled.send[h] = nsend[h]
               /\ Cardinality(Pushed(h)) = nsend[h])
  /\ [][\A h \in Handles :
          /\ (pc[h] # "s_push" /\ pc'[h] = "s_push") =>
               (pc[h] = "idle" /\ mu = {} /\ mu' = {h} /\ queue' = queue)
          /\ (pc[h] = "s_push" /\ pc'[h] # "s_push") =>
               /\ pc'[h] = "s_notify"
               /\ queue' = Append(queue, SendVal(h))
               /\ mu' = {}
               /\ signalled' = signalled
          /\ (pc[h] = "s_notify" /\ pc'[h] # "s_notify") =>
               /\ pc'[h] = "idle"
               /\ signalled'.send[h] = signalled.send[h] + 1
               /\ queue' = queue /\ mu' = mu
          /\ signalled'.send[h] # signalled.send[h] =>
               (pc[h] = "s_notify" /\ pc'[h] = "idle")]_allVars

\* A second send call of one handle has pushed and released the lock and is
\* about to signal, its value still in the shared queue.
C18_Witness ==
  \E h \in Handles :
    /\ pc[h] = "s_notify"
    /\ nsend[h] = 2
    /\ signalled.send[h] = 1
    /\ mu = {}
    /\ \E i \in 1..Len(queue) : queue[i] = SendVal(h)

\* A thread of the variant that is inside a call and has work to do: a
\* Sender past the start of send, clone or drop, or the Receiver inside recv
\* unless it is parked on an empty queue with a Sender left to fill it.
HeldPending ==
  \/ \E h \in Handles :
       pc[h] \in {"s_push", "s_notify_held", "s_unlock", "c_inc", "c_new", "d_dec", "d_notify"}
  \/ rpc \in {"r_lock", "r_loop"}
  \/ rpc = "r_wait" /\ (~Parked \/ queue # <<>> \/ senders = 0)

\* C19  Signalling while still holding the lock does not deadlock.  With send
\* calling notify_one before it releases the lock and recv's wait loop
\* unchanged, whenever a thread is inside a call with work to do some thread
\* inside a call can take a step, and under fair scheduling a recv blocked in
\* its wait returns a value once one has been enqueued: the woken Receiver
\* takes the lock after the Sender has released it.
C19_HeldNotifyNoDeadlock ==
  /\ [](HeldPending => ENABLED ((\E h \in Handles : HeldSenderCallStep(h)) \/ RecvCallStep))
  /\ (rpc = "r_wait" /\ queue # <<>>)
       ~> (rpc = "idle" /\ results # <<>> /\ Last(results) # RecvError)
  /\ (rpc = "r_wait" /\ ~Parked /\ \E h \in Handles : h \in mu /\ pc[h] = "s_unlock")
       ~> (rpc = "r_loop" /\ mu = {RxThread})

\* The Receiver has been woken out of its wait by a send that still holds the
\* lock: it cannot reacquire until the Sender's drop(inner).
C19_Witness ==
  /\ rpc = "r_wait"
  /\ ~Parked
  /\ rcall.waited
  /\ queue # <<>>
  /\ \E h \in Handles : pc[h] = "s_unlock" /\ mu = {h} /\ signalled.send[h] = 1

\* C20  Clone registers the new Sender atomically with respect to concurrent
\* drops.  The count is incremented by a clone that holds the lock, before its
\* new handle exists, and the handle then appears with the count unchanged;
\* so the count equals the Senders not yet decremented by their drop plus the
\* handles clones have registered but not yet made, it is positive whenever a
\* Sender is alive, and neither a recv returns Err(RecvError) nor a drop
\* issues the last-sender notification while a Sender, a cloning one or a
\* fresh clone among them, is alive.
C20_CloneRegistersUnderLock ==
  /\ [](/\ senders = Cardinality({h \in Handles : Live(h) \/ pc[h] = "d_dec"})
                       + Cardinality({h \in Handles : pc[h] = "c_new"})
        /\ (\E h \in Handles : Live(h)) => senders > 0)
  /\ [][ /\ senders' = senders + 1 =>
              \E h \in Handles :
                /\ pc[h] = "c_inc" /\ pc'[h] = "c_new"
                /\ mu = {h} /\ mu' = {}
                /\ Existing' = Existing
         /\ Existing' \ Existing # {} =>
              /\ senders' = senders
              /\ \E h \in Handles : pc[h] = "c_new" /\ pc'[h] = "idle"
         /\ (results' # results /\ Last(results') = RecvError) =>
              ~ \E h \in Handles : Live(h) \/ Live(h)'
         /\ signalled'.drop # signalled.drop =>
              ~ \E h \in Handles : Live(h) \/ Live(h)' ]_allVars

\* A clone has incremented the count and not yet made its handle, while the
\* drop of another Sender has decremented it, to a count above 0, and not yet
\* returned, and the Receiver waits in recv.
C20_Witness ==
  /\ rpc = "r_wait"
  /\ \E h, g \in Handles :
       /\ pc[h] = "c_new"
       /\ pc[g] = "d_notify"
       /\ dsenders[g] >= 1
       /\ senders = 2

\* C21  Sender destruction signals only on the last drop.  Each drop takes the
\* sender count down by exactly 1 while it holds the lock and keeps the count
\* it left; on its way out it calls notify_one if and only if that count is
\* 0.  Over the life of a channel at most one drop notifies, the one whose
\* decrement left no Sender (every other handle is dropped or past its own
\* decrement), and a drop that leaves a Sender alive notifies nobody.
C21_NotifyOnlyOnLastDrop ==
  /\ [](/\ SumOver(signalled.drop, Handles) <= 1
        /\ \A h \in Handles :
             signalled.drop[h] = 1 =>
               (pc[h] = "dead" /\ senders = 0 /\ \A g \in Handles : ~Live(g)))
  /\ [][ /\ senders' < senders =>
              \E h \in Handles :
                /\ pc[h] = "d_dec" /\ pc'[h] = "d_notify"
                /\ mu = {h} /\ mu' = {}
                /\ senders' = senders - 1
                /\ dsenders'[h] = senders'
         /\ \A h \in Handles :
              /\ (pc[h] = "d_dec" /\ pc'[h] # "d_dec") => senders' = senders - 1
              /\ (pc[h] = "d_notify" /\ pc'[h] # "d_notify") =>
                   /\ pc'[h] = "dead"
                   /\ senders' = senders
                   /\ dsenders[h] = 0 =>
                        /\ signalled'.drop[h] = signalled.drop[h] + 1
                        /\ avail' \in NotifyOne(avail)
                   /\ dsenders[h] # 0 =>
                        /\ signalled' = signalled
                        /\ avail' = avail
              /\ signalled'.drop[h] # signalled.drop[h] =>
                   /\ pc[h] = "d_notify" /\ dsenders[h] = 0
                   /\ \A g \in Handles : g # h => (~Live(g) /\ pc[g] # "d_dec") ]_allVars

\* Two Senders are gone: the drop of one left the other alive and notified
\* nobody, the drop of the other took the count to 0 and notified.
C21_Witness ==
  \E h, g \in Handles :
    /\ h # g
    /\ pc[h] = "dead" /\ signalled.drop[h] = 0
    /\ pc[g] = "dead" /\ signalled.drop[g] = 1
    /\ senders = 0

\* C22  recv's fast path.  A recv call that finds the private buffer
\* non-empty returns Ok with the buffer's front element in its one step,
\* removing that element only; it does not touch the lock, so it can be taken
\* whoever holds the lock, and it leaves the shared queue, the sender count
\* and the condition's waiters as they were.
C22_FastPath ==
  /\ []((rpc = "idle" /\ buf # <<>> /\ Len(results) < MaxRecvs) => ENABLED RecvFast)
  /\ [][ (rpc = "idle" /\ buf # <<>> /\ (rpc' # rpc \/ results' # results \/ buf' # buf)) =>
            /\ results' = Append(results, Ok(Head(buf)))
            /\ buf' = Tail(buf)
            /\ rpc' = "idle"
            /\ mu' = mu
            /\ queue' = queue
            /\ senders' = senders
            /\ avail' = avail
            /\ strong' = strong ]_allVars

\* The fast path has served a recv call, the buffer still holds a value for
\* the next one, and a Sender's thread holds the lock.
C22_Witness ==
  /\ rpc = "idle"
  /\ rcall.fast
  /\ buf # <<>>
  /\ Len(results) < MaxRecvs
  /\ \E h \in Handles : mu = {h}

\* C23  recv's slow path with data.  When recv's loop, the buffer empty and
\* the lock held, finds k >= 1 values in the shared queue, the same step
\* returns Ok with the queue's front value and releases the lock; with k > 1
\* the k-1 values left are then in the private buffer, in the same order,
\* and the shared queue is empty; with k = 1 nothing is swapped and both are
\* empty.
C23_SlowPathWithData ==
  [][ (rpc = "r_loop" /\ rpc' # "r_loop" /\ queue # <<>>) =>
        /\ buf = <<>>
        /\ mu = {RxThread} /\ mu' = {}
        /\ rpc' = "idle"
        /\ results' = Append(results, Ok(Head(queue)))
        /\ Len(queue) > 1 => (buf' = Tail(queue) /\ queue' = <<>>)
        /\ Len(queue) = 1 => (buf' = buf /\ queue' = <<>>)
        /\ senders' = senders /\ avail' = avail ]_allVars

\* A slow-path recv found three values in the shared queue: it returned the
\* first and left the other two in the private buffer.
C23_Witness ==
  /\ rpc = "idle"
  /\ ~rcall.fast
  /\ Len(sent) = 3
  /\ Len(results) = 1 /\ results[1] = Ok(sent[1])
  /\ buf = <<sent[2], sent[3]>>
  /\ queue = <<>>

\* No notify_one has been issued on the channel so far.
NeverSignalled ==
  \A h \in Handles : signalled.send[h] = 0 /\ signalled.drop[h] = 0

\* C24  Spurious wake-ups are harmless.  A wait that has returned, for
\* whatever reason, returns nothing to recv's caller: it reacquires the lock
\* and recv goes round its loop; recv's loop returns only on a non-empty
\* queue or a sender count of 0, and on an empty queue with a Sender left it
\* releases the lock and waits again.  This holds of every turn of the loop,
\* so of any number of spurious wake-ups.
C24_SpuriousWakeHarmless ==
  [][ /\ (rpc = "r_wait" /\ rpc' # "r_wait") =>
           /\ rpc' = "r_loop"
           /\ mu = {} /\ mu' = {RxThread}
           /\ results' = results
           /\ queue' = queue /\ senders' = senders /\ buf' = buf
      /\ (rpc = "r_loop" /\ rpc' # "r_loop" /\ queue = <<>> /\ senders > 0) =>
           /\ rpc' = "r_wait"
           /\ results' = results
           /\ mu = {RxThread} /\ mu' = {}
           /\ Parked'
      /\ (rpc \in {"r_loop", "r_wait"} /\ results' # results) =>
           (rpc = "r_loop" /\ (queue # <<>> \/ senders = 0))
      /\ (Parked /\ ~Parked' /\ avail' = avail \ {RxThread} /\ UNCHANGED signalled) =>
           (rpc' = "r_wait" /\ results' = results) ]_allVars

\* The wait has returned although no notify_one was ever issued, the queue is
\* empty and a Sender is left: recv is back in its loop, the lock reacquired.
C24_Witness ==
  /\ rpc = "r_loop"
  /\ rcall.waited
  /\ mu = {RxThread}
  /\ NeverSignalled
  /\ queue = <<>>
  /\ senders > 0

\* The Senders inside a send call.
InSend == {h \in Handles : pc[h] \in {"s_push", "s_notify"}}

\* C25  send does not block on the receiver.  No Sender thread is ever parked
\* on the condition, a Receiver inside the wait does not hold the lock, and
\* a send that has taken the lock can always take its next step, the push or
\* the notify_one, whatever the Receiver does.  Under fair scheduling, from
\* any state in which the lock is held or a send is in progress a state is
\* reached in which the lock is free and the send calls have all returned,
\* whether the Receiver is parked, running or never calls recv.
C25_SendNeverBlocks ==
  /\ [](avail \subseteq {RxThread})
  /\ [](rpc = "r_wait" => RxThread \notin mu)
  /\ [](\A h \in Handles :
          /\ pc[h] = "s_push" => ENABLED SendPush(h)
          /\ pc[h] = "s_notify" => ENABLED SendNotify(h))
  /\ (mu # {} \/ InSend # {}) ~> (mu = {} /\ InSend = {})

\* A send has taken the lock and is about to push while the Receiver is
\* parked inside recv.
C25_Witness ==
  /\ Parked
  /\ rpc = "r_wait"
  /\ \E h \in Handles : pc[h] = "s_push" /\ mu = {h}

\* The place of value x in the order of the pushes.
EnqueuePos(x) == CHOOSE i \in 1..Len(sent) : sent[i] = x

\* C26  Pending-set conservation.  In every reachable state the private
\* buffer followed by the shared queue is the sequence of the values pushed
\* and not yet returned by recv, in push order: the pushes without as many of
\* the first as recv has returned.  Every value in the private buffer was
\* pushed before every value in the shared queue.
C26_PendingConservation ==
  /\ Len(Received) <= Len(sent)
  /\ buf \o queue = SubSeq(sent, Len(Received) + 1, Len(sent))
  /\ \A i \in 1..Len(buf) : \A j \in 1..Len(queue) :
       EnqueuePos(buf[i]) < EnqueuePos(queue[j])

\* One value has been returned, the next is in the private buffer, and a
\* value pushed after the swap is in the shared queue.
C26_Witness ==
  /\ Len(Received) = 1
  /\ Len(buf) = 1
  /\ Len(queue) = 1
  /\ Len(sent) = 3

\* C27  No value is lost at disconnection.  The step that takes the sender
\* count to 0, and the return of a dropped Sender, leave the shared queue and
\* the private buffer as they are; a recv that returns while a value is
\* pending returns Ok of the oldest pending value, whatever the sender count;
\* so when recv first returns Err(RecvError) it has returned every value
\* pushed, in push order.
C27_NoLossAtDisconnect ==
  /\ [](\A i \in 1..Len(results) :
          results[i] = RecvError =>
            /\ i > Len(sent)
            /\ \A j \in 1..Len(sent) : results[j] = Ok(sent[j]))
  /\ [][ /\ (senders' = 0 /\ senders # 0) => (queue' = queue /\ buf' = buf)
         /\ (\E h \in Handles : pc[h] # "dead" /\ pc'[h] = "dead") =>
              (queue' = queue /\ buf' = buf)
         /\ (results' # results /\ buf \o queue # <<>>) =>
              results' = Append(results, Ok(Head(buf \o queue))) ]_allVars

\* Three values were sent and every Sender is dropped; recv has returned the
\* three in push order and then, finding the channel closed and empty,
\* Err(RecvError).
C27_Witness ==
  /\ Len(sent) = 3
  /\ senders = 0
  /\ \A h \in Handles : pc[h] \in {"none", "dead"}
  /\ results = <<Ok(sent[1]), Ok(sent[2]), Ok(sent[3]), RecvError>>
  /\ rcall.kind = "closed"

\* C28  The swap in recv only ever runs on an empty private buffer.  From the
\* moment recv has found the buffer empty until it returns, at the lock, in
\* the loop and in the wait, the buffer has length 0; so the step that swaps
\* puts an empty deque in the shared queue's place and moves no buffered value
\* back behind newer ones.
C28_SwapOnEmptyBuffer ==
  /\ [](rpc \in {"r_lock", "r_loop", "r_wait"} => Len(buf) = 0)
  /\ [][ /\ (rpc # "idle" /\ buf' # buf) =>
              /\ rpc = "r_loop"
              /\ Len(buf) = 0
              /\ Len(queue) > 1
              /\ buf' = Tail(queue)
              /\ queue' = <<>>
         /\ (Len(buf') > Len(buf)) => (rpc = "r_loop" /\ Len(buf) = 0)
         /\ (rpc = "idle" /\ rpc' = "r_lock") => Len(buf) = 0 ]_allVars

\* The second recv call took the slow path on an empty buffer, found two
\* values in the shared queue, returned one and swapped the other in.
C28_Witness ==
  /\ rpc = "idle"
  /\ ~rcall.fast
  /\ Len(sent) = 3
  /\ Len(results) = 2
  /\ buf = <<sent[3]>>
  /\ queue = <<>>

\* The Senders that have released the lock after their update, a push or the
\* decrement to 0, and have yet to issue the notify_one that follows it.
NotifyPending ==
  {h \in Handles : pc[h] = "s_notify" \/ (pc[h] = "d_notify" /\ dsenders[h] = 0)}

\* C29  No lost wake-up.  In every reachable state in which the Receiver is
\* parked on the condition while the shared queue is non-empty or the sender
\* count is 0, some Sender has released the lock after its update and has not
\* yet issued its notify_one; that Sender no longer holds the lock, and its
\* notify_one, the Receiver being the only waiter, takes the Receiver out of
\* the wait.
C29_NoLostWakeup ==
  /\ []((Parked /\ (queue # <<>> \/ senders = 0)) =>
          \E h \in NotifyPending : h \notin mu)
  /\ [][ (Parked /\ \E h \in NotifyPending : h \notin NotifyPending') => ~Parked' ]_allVars

\* The Receiver parked on an empty queue; a send has since pushed a value and
\* released the lock, and stands before its notify_one.
C29_Witness ==
  /\ Parked
  /\ rpc = "r_wait"
  /\ queue # <<>>
  /\ senders > 0
  /\ \E h \in Handles : pc[h] = "s_notify" /\ signalled.send[h] = 0

\* The step is one of a send call, of a clone call, of a drop, on handle h, or
\* one of a recv call.
SendStep(h)  == pc'[h] # pc[h] /\ (pc'[h] = "s_push" \/ pc[h] \in {"s_push", "s_notify"})
CloneStep(h) == pc'[h] # pc[h] /\ (pc'[h] = "c_inc" \/ pc[h] \in {"c_inc", "c_new"})
DropStep(h)  == pc'[h] # pc[h] /\ (pc'[h] = "d_dec" \/ pc[h] \in {"d_dec", "d_notify"})
RecvStep     == rpc' # "dropped" /\ (rpc' # rpc \/ results' # results)

\* C30  Frame conditions of the channel operations, for as long as a handle
\* keeps the channel's shared block allocated.  A step of send leaves the
\* sender count and the private buffer alone and changes the shared queue at
\* most by appending its value; a step of clone or of a Sender's drop leaves
\* the shared queue and the private buffer alone and changes the count by at
\* most one, up for clone and down for drop; the shared queue loses elements
\* and the private buffer changes only in a step of recv; and no step of recv
\* changes the sender count.
C30_FrameConditions ==
  [][ /\ \A h \in Handles :
           /\ SendStep(h) =>
                /\ senders' = senders /\ buf' = buf
                /\ queue' \in {queue, Append(queue, SendVal(h))}
           /\ CloneStep(h) =>
                /\ queue' = queue /\ buf' = buf
                /\ senders' \in {senders, senders + 1}
           /\ (DropStep(h) /\ strong' > 0) =>
                /\ queue' = queue /\ buf' = buf
                /\ senders' \in {senders, senders - 1}
      /\ (strong' > 0 /\ rpc' # "dropped" /\ (buf' # buf \/ ~IsPrefix(queue, queue'))) =>
           RecvStep
      /\ senders' # senders => \E h \in Handles : CloneStep(h) \/ DropStep(h)
      /\ RecvStep => senders' = senders ]_allVars

\* Each operation has acted: two values were sent, a clone was made and a
\* Sender dropped, and a recv returned one value and swapped the other into
\* the private buffer.
C30_Witness ==
  /\ Len(sent) >= 2
  /\ \E h \in Handles : pc[h] = "dead"
  /\ \E h \in Handles : h # 1 /\ pc[h] # "none"
  /\ Len(results) >= 1
  /\ buf # <<>>
  /\ rpc = "idle"

\* The main thread, as a thread of the Mutex.
MainThread == 0

\* The threads in with_lock's critical section: between their successful
\* compare-and-swap and their releasing store.
InCritical ==
  InClosure \cup (IF mpc \in {"read", "store"} THEN {MainThread} ELSE {})

\* C33  Spin-lock flag invariant.  The lock flag is LOCKED exactly when one
\* thread is between its successful compare-and-swap and its releasing store;
\* it is UNLOCKED whenever no thread is in the critical section, so in
\* Mutex::new's state and once every with_lock call has returned; the flag
\* goes to LOCKED only by a thread entering and to UNLOCKED only by the one
\* inside leaving; and with_lock returns the closure's result: the main
\* thread's call returns the value its closure read, the number of
\* increments made.
C33_FlagInvariant ==
  /\ [](/\ lock \in {LOCKED, UNLOCKED}
        /\ (lock = LOCKED) <=> (Cardinality(InCritical) = 1)
        /\ (InCritical = {}) => (lock = UNLOCKED)
        /\ mpc = "done" =>
             /\ lock = UNLOCKED
             /\ got = ret
             /\ got = MaxThreads * MaxIters)
  /\ [][ /\ (lock = UNLOCKED /\ lock' = LOCKED) =>
              \E t \in Threads \cup {MainThread} :
                t \notin InCritical /\ InCritical' = {t}
         /\ (lock = LOCKED /\ lock' = UNLOCKED) =>
              (InCritical' = {} /\ Cardinality(InCritical) = 1)
         /\ ret' # ret => (ret' = v /\ InCritical = {MainThread} /\ lock = LOCKED)
         /\ got' # got => (got' = ret /\ mpc = "store" /\ mpc' = "done") ]_allVars

\* Every thread has made its calls, the main thread's with_lock(|v| *v) has
\* returned their number, and the flag is UNLOCKED.
C33_Witness ==
  /\ mpc = "done"
  /\ \A t \in Threads : tdone[t] = MaxIters
  /\ got = MaxThreads * MaxIters
  /\ lock = UNLOCKED

\* C31  The load-then-store lock is not thread-safe.  A thread leaves the spin
\* loop on a load that found UNLOCKED, and that load changes nothing; its
\* store of LOCKED is a separate step that looks at nothing, so it can be
\* taken, and takes the thread into the critical section, whatever the flag
\* holds by then and whoever is already inside.  Two threads that have both
\* left the loop therefore both enter; increments are then lost, never
\* gained.
C31_LoadStoreRace ==
  /\ [](\A t \in Threads : tpc[t] = "lock" => ENABLED StoreLocked(t))
  /\ [](v <= SumOver(tdone, Threads) + Cardinality({t \in Threads : tpc[t] = "store"}))
  /\ [][\A t \in Threads :
          /\ (tpc[t] = "load" /\ tpc'[t] # "load") =>
               (lock = UNLOCKED /\ lock' = lock /\ tpc'[t] = "lock")
          /\ (tpc[t] = "lock" /\ tpc'[t] # "lock") =>
               (tpc'[t] = "read" /\ lock' = LOCKED /\ InClosure' = InClosure \cup {t})
          /\ (tpc[t] = "store" /\ tpc'[t] # "store") => lock' = UNLOCKED ]_allVars

\* Two threads are inside the critical section at the same time: both found
\* the flag UNLOCKED, both stored LOCKED, and both have read the same value
\* of *v.
C31_Witness ==
  /\ Cardinality(InClosure) > 1
  /\ \E s, t \in Threads :
       /\ s # t
       /\ tpc[s] = "write" /\ tpc[t] = "write"
       /\ tval[s] = tval[t]
  /\ lock = LOCKED

\* C32  Under sequentially consistent ordering z = 0 is not possible in
\* atomic_sequentially_consistent: when every load and store of x and y is
\* SeqCst, the two waiters cannot both load the other flag as false, so once
\* both have finished z is 1 or 2, and that is what the main thread loads
\* after its joins.  Whatever the ordering, z is never above 2.
C32_SeqCstExcludesZero ==
  /\ atomics.z \in 0..2
  /\ apc["main"] = "done" => zfinal = atomics.z
  /\ ord = "SeqCst" =>
       /\ ~(saw["t1"] = {FALSE} /\ saw["t2"] = {FALSE})
       /\ (\A t \in Waiters : apc[t] = "done") => atomics.z \in {1, 2}
       /\ apc["main"] = "done" => zfinal \in {1, 2}

\* Under SeqCst the run has ended with one waiter having loaded the other
\* flag as false and the other having incremented z: the main thread loaded 1.
C32_Witness ==
  /\ ord = "SeqCst"
  /\ \A t \in AtomicThreads : apc[t] = "done"
  /\ \E t \in Waiters : saw[t] = {FALSE}
  /\ zfinal = 1

====
